---- MODULE Spec2Model ----
(***************************************************************************)
(* Tablet storage engine (package tablet): data model, memtable, commit    *)
(* log, SSTable flush/read, tablet coordinator and split.                  *)
(*                                                                         *)
(* Row keys are modelled by the integers 0..MaxKey, an order embedding of  *)
(* the strings "", "a", "b", ... under Go's string comparison: 0 is the    *)
(* empty string, the least key and the EndKey that means "no upper bound". *)
(* Families, qualifiers and values are strings (colon-free, as in the      *)
(* repository's own usage), paths are tuples of path components.           *)
(***************************************************************************)
EXTENDS Integers, Sequences, FiniteSets, TLC

VARIABLES
    tablet,     \* the root *Tablet held by the caller, Nil after a failed NewTablet
    files,      \* the file system: path -> file content
    now,        \* the reading time.Now().UnixNano() gives
    ret,        \* what the last call returned: the error, and Split's two tablets
    acked,      \* history: the mutations whose Mutate on the root returned nil, as submitted and as stored
    opened,     \* history: Len(acked) when the current root object was constructed
    splits,     \* number of Split calls on the root that passed the threshold check
    rootRange,  \* the <<start, end>> the caller opens the root directory with
    target,     \* ApplySpec: the Row that Row.Apply works on
    applied,    \* ApplySpec: the call of Row.Apply made, with the row before it
    pc,         \* ConcSpec: where each thread stands in its call of Mutate or Read
    local,      \* ConcSpec: the arguments and local variables of each thread's call
    locks,      \* ConcSpec: the holders of t.mu, m.mu, l.mu and each row's r.mu
    calls,      \* ConcSpec: the number of calls started
    committed,  \* ConcSpec: per row key, the rows that whole mutations left
    visible,    \* ConcSpec: the mutations in the order MemTable.Apply took them up
    compaction, \* StoreSpec: the last call of Compact, with the files before it
    tablets,    \* LockSpec: the *Tablet objects callers hold (the root, children Split returned)
    master,     \* MasterSpec: the Master: Servers and TabletLocations
    report      \* MasterSpec: the last request handled, with TabletLocations before it

vars == <<tablet, files, now, ret, acked, opened, splits, rootRange, target, applied,
         pc, local, locks, calls, committed, visible, compaction,
         tablets, master, report>>
applyVars == <<target, applied>>
concVars == <<pc, local, locks, calls, committed, visible>>
tabletVars == <<ret, acked, opened, splits, rootRange>>
storeVars == <<compaction>>
lockVars == <<tablets>>
masterVars == <<master, report>>

(***************************************************************************)
(* Bounds of the model.                                                    *)
(***************************************************************************)
MaxKey == 1
MaxMutations == 2
MaxOps == 1
MaxSplits == 2
MaxClock == 3

Keys == 0..MaxKey
KeyNames == <<"a", "b", "c", "d", "e", "f">>
KeyStr(k) == IF k = 0 THEN "" ELSE KeyNames[k]
KeyLen(k) == Len(KeyStr(k))

Families == {"cf"}
Qualifiers == {"a", "b"}
Thresholds == {0, 13, 40}
FirstClock == 2

Nil == [nil |-> TRUE]
EmptyMap == [x \in {} |-> x]
Absent == [found |-> FALSE]

Min(S) == CHOOSE x \in S : \A y \in S : x <= y

(***************************************************************************)
(* model.go: CellVersion, Column, Row, RowMutation.                        *)
(***************************************************************************)
CellVersion(ts, value) == [Timestamp |-> ts, Value |-> value]

NewColumn(family, qualifier) ==
    [Family |-> family, Qualifier |-> qualifier, Versions |-> <<>>]

\* sort.Search(n, f): binary search for the least 0-based index in [i, j) at
\* which Versions[h].Timestamp <= ts.
RECURSIVE Search(_, _, _, _)
Search(versions, ts, i, j) ==
    IF i < j
    THEN LET h == (i + j) \div 2
         IN  IF ~(versions[h + 1].Timestamp <= ts)
             THEN Search(versions, ts, h + 1, j)
             ELSE Search(versions, ts, i, h)
    ELSE i

\* Column.Insert with the new version always put first.
InsertFirst(c, timestamp, value, clock) ==
    [c EXCEPT !.Versions =
        <<CellVersion(IF timestamp = 0 THEN clock ELSE timestamp, value)>> \o @]

\* Column.Insert: a zero timestamp is stamped from the clock; the version goes
\* to the index Search finds.
Insert(c, timestamp, value, clock) ==
    LET ts == IF timestamp = 0 THEN clock ELSE timestamp
        newVer == CellVersion(ts, value)
        idx == Search(c.Versions, ts, 0, Len(c.Versions))
    IN  [c EXCEPT !.Versions =
            SubSeq(@, 1, idx) \o <<newVer>> \o SubSeq(@, idx + 1, Len(@))]

GetLatest(c) ==
    IF Len(c.Versions) = 0
    THEN Absent
    ELSE [found |-> TRUE, Timestamp |-> c.Versions[1].Timestamp,
          Value |-> c.Versions[1].Value]

NewRow(key) == [Key |-> key, Columns |-> EmptyMap]

ColKey(family, qualifier) == family \o ":" \o qualifier

setInternal(r, family, qualifier, timestamp, value, clock) ==
    LET colKey == ColKey(family, qualifier)
        col == IF colKey \in DOMAIN r.Columns
               THEN r.Columns[colKey]
               ELSE NewColumn(family, qualifier)
    IN  [r EXCEPT !.Columns =
            (colKey :> Insert(col, timestamp, value, clock)) @@ @]

deleteInternal(r, family, qualifier) ==
    LET colKey == ColKey(family, qualifier)
    IN  [r EXCEPT !.Columns = [k \in (DOMAIN @) \ {colKey} |-> @[k]]]

\* Row.Get
RowGet(r, family, qualifier) ==
    LET colKey == ColKey(family, qualifier)
    IN  IF colKey \notin DOMAIN r.Columns
        THEN Absent
        ELSE GetLatest(r.Columns[colKey])

SetOp(family, qualifier, timestamp, value) ==
    [Type |-> "Set", Family |-> family, Qualifier |-> qualifier,
     Timestamp |-> timestamp, Value |-> value]

DeleteOp(family, qualifier) ==
    [Type |-> "Delete", Family |-> family, Qualifier |-> qualifier,
     Timestamp |-> 0, Value |-> ""]

RowMutation(rowKey, ops) == [RowKey |-> rowKey, Ops |-> ops]

\* One operation of the loop of Row.Apply.
ApplyOp(r, op, clock) ==
    IF op.Type = "Set"
    THEN setInternal(r, op.Family, op.Qualifier, op.Timestamp, op.Value, clock)
    ELSE deleteInternal(r, op.Family, op.Qualifier)

\* Row.Apply with the loop running from the last operation to the first.
RECURSIVE ApplyOpsBackwards(_, _, _, _)
ApplyOpsBackwards(r, ops, i, clock) ==
    IF i > Len(ops)
    THEN r
    ELSE ApplyOp(ApplyOpsBackwards(r, ops, i + 1, clock), ops[i], clock)

\* The loop of Row.Apply over m.Ops[i..], in order.
RECURSIVE ApplyOps(_, _, _, _)
ApplyOps(r, ops, i, clock) ==
    IF i > Len(ops)
    THEN r
    ELSE ApplyOps(ApplyOp(r, ops[i], clock), ops, i + 1, clock)

\* Row.Apply
RowApply(r, m, clock) ==
    IF r.Key # m.RowKey
    THEN [err |-> "KeyMismatch", row |-> r]
    ELSE [err |-> "ok", row |-> ApplyOps(r, m.Ops, 1, clock)]

(***************************************************************************)
(* memtable.go: the tree is a map from row key to Row, walked ascending.   *)
(***************************************************************************)
NewMemTable == [tree |-> EmptyMap, SizeBytes |-> 0]

RECURSIVE estimateMutationSize(_)
estimateMutationSize(ops) ==
    IF ops = <<>>
    THEN 0
    ELSE Len(Head(ops).Family) + Len(Head(ops).Qualifier)
            + Len(Head(ops).Value) + 8 + estimateMutationSize(Tail(ops))

\* MemTable.Apply
MemTableApply(mt, mutation, clock) ==
    LET exists == mutation.RowKey \in DOMAIN mt.tree
        row == IF exists THEN mt.tree[mutation.RowKey] ELSE NewRow(mutation.RowKey)
        size1 == mt.SizeBytes + (IF exists THEN 0 ELSE KeyLen(mutation.RowKey))
        size2 == size1 + estimateMutationSize(mutation.Ops)
        res == RowApply(row, mutation, clock)
    IN  [err |-> res.err,
         mt |-> [tree |-> (mutation.RowKey :> res.row) @@ mt.tree,
                 SizeBytes |-> size2]]

\* MemTable.Get
MemTableGet(mt, key) ==
    IF key \in DOMAIN mt.tree THEN mt.tree[key] ELSE Nil

\* tree.Ascend: the rows in ascending key order.
RECURSIVE Ascend(_)
Ascend(tree) ==
    IF DOMAIN tree = {}
    THEN <<>>
    ELSE LET k == Min(DOMAIN tree)
         IN  <<tree[k]>> \o Ascend([x \in (DOMAIN tree) \ {k} |-> tree[x]])

(***************************************************************************)
(* SSTable flush and read.  A file is the sequence of its JSON records;    *)
(* the record of a Row holds Key and Columns (the mutex is not exported),  *)
(* and decoding gives back the same Key, Columns and Versions.             *)
(***************************************************************************)
\* MemTable.Flush: os.Create truncates the file at path, the rows are written
\* in key order, the tree is cleared.
Flush(mt, path, fs) ==
    [meta |-> path,
     mt |-> [mt EXCEPT !.tree = EmptyMap],
     fs |-> (path :> Ascend(mt.tree)) @@ fs]

ReadSSTable(path, fs) ==
    IF path \in DOMAIN fs
    THEN [err |-> "ok", rows |-> fs[path]]
    ELSE [err |-> "IOFailure", rows |-> <<>>]

(***************************************************************************)
(* Compaction.                                                             *)
(***************************************************************************)
\* sort.Slice with less = (Timestamp greater): for up to 12 elements it is an
\* insertion sort, each element moved left past the elements it is less than.
RECURSIVE MoveLeft(_, _)
MoveLeft(versions, j) ==
    IF j > 1 /\ versions[j].Timestamp > versions[j - 1].Timestamp
    THEN MoveLeft([versions EXCEPT ![j - 1] = versions[j], ![j] = versions[j - 1]],
                  j - 1)
    ELSE versions

\* sort.Slice left out.
SortSliceSkipped(versions, i) == versions

RECURSIVE SortSlice(_, _)
SortSlice(versions, i) ==
    IF i > Len(versions)
    THEN versions
    ELSE SortSlice(MoveLeft(versions, i), i + 1)

\* mergeRows for one column of source.
mergeColumn(dest, colKey, sourceCol) ==
    IF colKey \notin DOMAIN dest.Columns
    THEN [dest EXCEPT !.Columns = (colKey :> sourceCol) @@ @]
    ELSE [dest EXCEPT !.Columns[colKey].Versions =
            SortSlice(@ \o sourceCol.Versions, 2)]

\* mergeRows: the columns of source merged into dest one by one; they are
\* distinct columns of dest, so the order of the map iteration does not matter.
RECURSIVE mergeRows(_, _)
mergeRows(dest, source) ==
    IF DOMAIN source.Columns = {}
    THEN dest
    ELSE LET colKey == CHOOSE k \in DOMAIN source.Columns : TRUE
         IN  mergeRows(mergeColumn(dest, colKey, source.Columns[colKey]),
                       [source EXCEPT !.Columns =
                            [k \in (DOMAIN @) \ {colKey} |-> @[k]]])

\* Compact, step 1: the rows of one input merged into mergedRows.
RECURSIVE MergeInput(_, _, _)
MergeInput(mergedRows, rows, i) ==
    IF i > Len(rows)
    THEN mergedRows
    ELSE MergeInput(
            IF rows[i].Key \notin DOMAIN mergedRows
            THEN (rows[i].Key :> rows[i]) @@ mergedRows
            ELSE [mergedRows EXCEPT ![rows[i].Key] = mergeRows(@, rows[i])],
            rows, i + 1)

RECURSIVE LoadInputs(_, _, _, _)
LoadInputs(mergedRows, inputPaths, i, fs) ==
    IF i > Len(inputPaths)
    THEN [err |-> "ok", mergedRows |-> mergedRows]
    ELSE LET rd == ReadSSTable(inputPaths[i], fs)
         IN  IF rd.err # "ok"
             THEN [err |-> rd.err, mergedRows |-> mergedRows]
             ELSE LoadInputs(MergeInput(mergedRows, rd.rows, 1), inputPaths, i + 1, fs)

\* Compact: the merged rows written in the order of the sorted keys.
Compact(inputPaths, outputPath, fs) ==
    LET ld == LoadInputs(EmptyMap, inputPaths, 1, fs)
    IN  IF ld.err # "ok"
        THEN [err |-> ld.err, fs |-> fs]
        ELSE [err |-> "ok", fs |-> (outputPath :> Ascend(ld.mergedRows)) @@ fs]

(***************************************************************************)
(* Commit log.  The file is the sequence of the records gob wrote; a gob   *)
(* encoder sends the type definitions of RowMutation with the first value  *)
(* it encodes, and a gob decoder fails with "duplicate type received" on a *)
(* definition of a type it already knows.                                  *)
(***************************************************************************)
NewCommitLog(path, fs) ==
    [l |-> [path |-> path, file |-> "open", sent |-> FALSE],
     fs |-> IF path \in DOMAIN fs THEN fs ELSE (path :> <<>>) @@ fs]

\* CommitLog.Append
CommitLogAppend(l, mutation, fs) ==
    IF l.file # "open"
    THEN [err |-> "IOFailure", l |-> l, fs |-> fs]
    ELSE [err |-> "ok",
          l |-> [l EXCEPT !.sent = TRUE],
          fs |-> [fs EXCEPT ![l.path] =
                    Append(@, [types |-> ~l.sent, m |-> mutation])]]

\* CommitLog.Close
CommitLogClose(l) ==
    IF l.file # "open"
    THEN [err |-> "IOFailure", l |-> l]
    ELSE [err |-> "ok", l |-> [l EXCEPT !.file = "closed"]]

\* The decode loop of CommitLog.Recover from record i on.
RECURSIVE Decode(_, _, _, _)
Decode(records, i, known, out) ==
    IF i > Len(records)
    THEN [err |-> "ok", mutations |-> out]
    ELSE IF records[i].types /\ known
    THEN [err |-> "CorruptLog", mutations |-> <<>>]
    ELSE Decode(records, i + 1, known \/ records[i].types, Append(out, records[i].m))

\* CommitLog.Recover
Recover(l, fs) ==
    IF l.path \notin DOMAIN fs
    THEN [err |-> "IOFailure", mutations |-> <<>>]
    ELSE Decode(fs[l.path], 1, FALSE, <<>>)

(***************************************************************************)
(* tablet.go: the tablet coordinator.                                      *)
(***************************************************************************)
Join(path, name) == Append(path, name)
FilepathDir(path) == SubSeq(path, 1, Len(path) - 1)

RootDir == <<"data", "root">>
WalName == "tablet.wal"
SplitTempName == "split_temp.sst"
\* The names with extension .sst that a tablet directory can hold, in the
\* order os.ReadDir lists them (sorted by filename): the outputs a caller
\* gives Compact, the paths a caller gives MemTable.Flush, the path of Split.
CompactNames == <<"compact_1.sst", "compact_2.sst", "compact_3.sst">>
FlushNames == <<"flush_1.sst", "flush_2.sst", "flush_3.sst", "flush_4.sst">>
SSTFileNames == CompactNames \o FlushNames \o <<SplitTempName>>

\* InRange with the end key taken as inclusive.
InRangeEndInclusive(t, key) ==
    IF key < t.StartKey
    THEN FALSE
    ELSE IF t.EndKey # 0 /\ key > t.EndKey
    THEN FALSE
    ELSE TRUE

\* Tablet.InRange
InRange(t, key) ==
    IF key < t.StartKey
    THEN FALSE
    ELSE IF t.EndKey # 0 /\ key >= t.EndKey
    THEN FALSE
    ELSE TRUE

\* NewTablet: the directory scan for *.sst files.
RECURSIVE LoadSSTables(_, _, _)
LoadSSTables(dir, i, fs) ==
    IF i > Len(SSTFileNames)
    THEN <<>>
    ELSE (IF Join(dir, SSTFileNames[i]) \in DOMAIN fs
          THEN <<Join(dir, SSTFileNames[i])>>
          ELSE <<>>) \o LoadSSTables(dir, i + 1, fs)

\* NewTablet: the replay loop over the recovered mutations.
RECURSIVE Replay(_, _, _, _)
Replay(mt, mutations, i, clock) ==
    IF i > Len(mutations)
    THEN [err |-> "ok", mt |-> mt]
    ELSE LET r == MemTableApply(mt, mutations[i], clock)
         IN  IF r.err # "ok"
             THEN [err |-> r.err, mt |-> mt]
             ELSE Replay(r.mt, mutations, i + 1, clock)

NewTablet(start, end, dir, fs, clock) ==
    LET cl == NewCommitLog(Join(dir, WalName), fs)
        sstables == LoadSSTables(dir, 1, cl.fs)
        rec == Recover(cl.l, cl.fs)
        rep == Replay(NewMemTable, rec.mutations, 1, clock)
    IN  IF rec.err # "ok"
        THEN [err |-> rec.err, t |-> Nil, fs |-> cl.fs]
        ELSE IF rep.err # "ok"
        THEN [err |-> rep.err, t |-> Nil, fs |-> cl.fs]
        ELSE [err |-> "ok",
              t |-> [StartKey |-> start, EndKey |-> end, Dir |-> dir,
                     MemTable |-> rep.mt, CommitLog |-> cl.l,
                     SSTables |-> sstables],
              fs |-> cl.fs]

\* Tablet.Mutate with the memtable updated before the WAL append.
MutateApplyFirst(t, m, fs, clock) ==
    IF ~InRange(t, m.RowKey)
    THEN [err |-> "OutOfRange", t |-> t, fs |-> fs]
    ELSE LET ap == MemTableApply(t.MemTable, m, clock)
             a == CommitLogAppend(t.CommitLog, m, fs)
         IN  IF a.err # "ok"
             THEN [err |-> a.err, t |-> [t EXCEPT !.MemTable = ap.mt], fs |-> fs]
             ELSE [err |-> ap.err,
                   t |-> [t EXCEPT !.CommitLog = a.l, !.MemTable = ap.mt],
                   fs |-> a.fs]

\* Tablet.Mutate
Mutate(t, m, fs, clock) ==
    IF ~InRange(t, m.RowKey)
    THEN [err |-> "OutOfRange", t |-> t, fs |-> fs]
    ELSE LET a == CommitLogAppend(t.CommitLog, m, fs)
         IN  IF a.err # "ok"
             THEN [err |-> a.err, t |-> t, fs |-> fs]
             ELSE LET ap == MemTableApply(t.MemTable, m, clock)
                  IN  [err |-> ap.err,
                       t |-> [t EXCEPT !.CommitLog = a.l, !.MemTable = ap.mt],
                       fs |-> a.fs]

\* Tablet.Read, step 2: the candidate of one SSTable is the cell of the first
\* row with the key.
RECURSIVE RowCandidate(_, _, _, _, _)
RowCandidate(rows, i, rowKey, family, qualifier) ==
    IF i > Len(rows)
    THEN <<>>
    ELSE IF rows[i].Key = rowKey
    THEN LET ver == RowGet(rows[i], family, qualifier)
         IN  IF ver.found THEN <<ver>> ELSE <<>>
    ELSE RowCandidate(rows, i + 1, rowKey, family, qualifier)

RECURSIVE SSTableCandidates(_, _, _, _, _, _)
SSTableCandidates(sstables, i, rowKey, family, qualifier, fs) ==
    IF i > Len(sstables)
    THEN [err |-> "ok", candidates |-> <<>>]
    ELSE LET rd == ReadSSTable(sstables[i], fs)
             rest == SSTableCandidates(sstables, i + 1, rowKey, family, qualifier, fs)
         IN  IF rd.err # "ok"
             THEN [err |-> rd.err, candidates |-> <<>>]
             ELSE IF rest.err # "ok"
             THEN rest
             ELSE [err |-> "ok",
                   candidates |->
                       RowCandidate(rd.rows, 1, rowKey, family, qualifier)
                           \o rest.candidates]

\* Tablet.Read, step 3: a later candidate replaces best only with a strictly
\* greater timestamp.
RECURSIVE FindLatest(_, _, _)
FindLatest(candidates, i, best) ==
    IF i > Len(candidates)
    THEN best
    ELSE IF ~best.found \/ candidates[i].Timestamp > best.Timestamp
    THEN FindLatest(candidates, i + 1, candidates[i])
    ELSE FindLatest(candidates, i + 1, best)

\* Tablet.Read
Read(t, rowKey, family, qualifier, fs) ==
    IF ~InRange(t, rowKey)
    THEN [err |-> "OutOfRange", ver |-> Absent]
    ELSE LET row == MemTableGet(t.MemTable, rowKey)
             fromMem == IF row = Nil
                        THEN <<>>
                        ELSE LET ver == RowGet(row, family, qualifier)
                             IN  IF ver.found THEN <<ver>> ELSE <<>>
             fromSST == SSTableCandidates(t.SSTables, 1, rowKey, family, qualifier, fs)
         IN  IF fromSST.err # "ok"
             THEN [err |-> fromSST.err, ver |-> Absent]
             ELSE [err |-> "ok",
                   ver |-> FindLatest(fromMem \o fromSST.candidates, 1, Absent)]

\* Tablet.Close
Close(t) ==
    LET c == CommitLogClose(t.CommitLog)
    IN  [err |-> c.err, t |-> [t EXCEPT !.CommitLog = c.l]]

(***************************************************************************)
(* Split.                                                                  *)
(***************************************************************************)
\* Split, step 3: the rows of every listed SSTable, concatenated.
RECURSIVE ReadAllRows(_, _, _)
ReadAllRows(sstables, i, fs) ==
    IF i > Len(sstables)
    THEN [err |-> "ok", rows |-> <<>>]
    ELSE LET rd == ReadSSTable(sstables[i], fs)
             rest == ReadAllRows(sstables, i + 1, fs)
         IN  IF rd.err # "ok"
             THEN rd
             ELSE IF rest.err # "ok"
             THEN rest
             ELSE [err |-> "ok", rows |-> rd.rows \o rest.rows]

\* sort.Slice by Key (insertion of each row after the rows with a key not
\* greater; rows with equal keys come from re-reading one file and are equal).
RECURSIVE InsertByKey(_, _)
InsertByKey(sorted, row) ==
    IF sorted = <<>>
    THEN <<row>>
    ELSE IF row.Key < Head(sorted).Key
    THEN <<row>> \o sorted
    ELSE <<Head(sorted)>> \o InsertByKey(Tail(sorted), row)

RECURSIVE SortByKey(_)
SortByKey(rows) ==
    IF rows = <<>>
    THEN <<>>
    ELSE InsertByKey(SortByKey(SubSeq(rows, 1, Len(rows) - 1)), rows[Len(rows)])

\* rowToMutation, inner loop: one Set per version of the column, in order.
RECURSIVE ColumnSets(_, _)
ColumnSets(col, i) ==
    IF i > Len(col.Versions)
    THEN <<>>
    ELSE <<SetOp(col.Family, col.Qualifier,
                 col.Versions[i].Timestamp, col.Versions[i].Value)>>
            \o ColumnSets(col, i + 1)

\* rowToMutation, outer loop over the Columns map.  Go leaves the iteration
\* order of a map open; the Sets of different columns commute, so one order
\* stands for all.
RECURSIVE ColumnsSets(_)
ColumnsSets(columns) ==
    IF DOMAIN columns = {}
    THEN <<>>
    ELSE LET k == CHOOSE x \in DOMAIN columns : TRUE
         IN  ColumnSets(columns[k], 1)
                \o ColumnsSets([x \in (DOMAIN columns) \ {k} |-> columns[x]])

rowToMutation(r) == RowMutation(r.Key, ColumnsSets(r.Columns))

Sprintf(start, end) == KeyStr(start) \o "_" \o KeyStr(end)

\* Split, step 5: each row goes to the left or to the right child through
\* Mutate, whose error is dropped.
RECURSIVE Partition(_, _, _, _, _, _, _)
Partition(allRows, i, splitKey, leftTablet, rightTablet, fs, clock) ==
    IF i > Len(allRows)
    THEN [left |-> leftTablet, right |-> rightTablet, fs |-> fs]
    ELSE LET mut == rowToMutation(allRows[i])
         IN  IF allRows[i].Key < splitKey
             THEN LET r == Mutate(leftTablet, mut, fs, clock)
                  IN  Partition(allRows, i + 1, splitKey, r.t, rightTablet, r.fs, clock)
             ELSE LET r == Mutate(rightTablet, mut, fs, clock)
                  IN  Partition(allRows, i + 1, splitKey, leftTablet, r.t, r.fs, clock)

SplitFailed(err, t, fs) ==
    [err |-> err, t |-> t, fs |-> fs, left |-> Nil, right |-> Nil, splitKey |-> 0]

\* Split, step 5 and the return.
SplitPartition(t, allRows, splitKey, leftTablet, rightTablet, fs, clock) ==
    LET p == Partition(allRows, 1, splitKey, leftTablet, rightTablet, fs, clock)
    IN  [err |-> "ok", t |-> t, fs |-> p.fs,
         left |-> p.left, right |-> p.right, splitKey |-> splitKey]

\* Split, step 4: the right tablet, [splitKey, EndKey).
SplitRight(t, allRows, splitKey, l, clock) ==
    LET dirRight == Join(FilepathDir(t.Dir), Sprintf(splitKey, t.EndKey))
        r == NewTablet(splitKey, t.EndKey, dirRight, l.fs, clock)
    IN  IF r.err # "ok"
        THEN SplitFailed("RightTabletFailed", t, r.fs)
        ELSE SplitPartition(t, allRows, splitKey, l.t, r.t, r.fs, clock)

\* Split, step 4: the left tablet, [StartKey, splitKey).
SplitLeft(t, allRows, splitKey, fs, clock) ==
    LET dirLeft == Join(FilepathDir(t.Dir), Sprintf(t.StartKey, splitKey))
        l == NewTablet(t.StartKey, splitKey, dirLeft, fs, clock)
    IN  IF l.err # "ok"
        THEN SplitFailed("LeftTabletFailed", t, l.fs)
        ELSE SplitRight(t, allRows, splitKey, l, clock)

\* Split, step 3: the split key is the key at index len/2 of the sorted rows.
MedianKey(allRows) == allRows[(Len(allRows) \div 2) + 1].Key

SplitRows(t, rd, fs, clock) ==
    IF rd.err # "ok"
    THEN SplitFailed(rd.err, t, fs)
    ELSE IF Len(rd.rows) < 2
    THEN SplitFailed("NotEnoughRows", t, fs)
    ELSE SplitLeft(t, SortByKey(rd.rows), MedianKey(SortByKey(rd.rows)), fs, clock)

\* Split, step 2: the flushed file is appended to SSTables.
SplitFlushed(t, fl, clock) ==
    SplitRows([t EXCEPT !.MemTable = fl.mt, !.SSTables = Append(@, fl.meta)],
              ReadAllRows(Append(t.SSTables, fl.meta), 1, fl.fs), fl.fs, clock)

\* Tablet.Split with the memtable flushed before the size check.
SplitFlushFirst(t, thresholdBytes, fs, clock) ==
    LET fl == Flush(t.MemTable, Join(t.Dir, SplitTempName), fs)
    IN  IF t.MemTable.SizeBytes < thresholdBytes
        THEN SplitFailed("BelowThreshold",
                         [t EXCEPT !.MemTable = fl.mt, !.SSTables = Append(@, fl.meta)],
                         fl.fs)
        ELSE SplitFlushed(t, fl, clock)

\* Tablet.Split
Split(t, thresholdBytes, fs, clock) ==
    IF t.MemTable.SizeBytes < thresholdBytes
    THEN SplitFailed("BelowThreshold", t, fs)
    ELSE SplitFlushed(t, Flush(t.MemTable, Join(t.Dir, SplitTempName), fs), clock)

(***************************************************************************)
(* The state machine: one caller working on the root tablet and its        *)
(* directory.                                                              *)
(***************************************************************************)
RootRanges == {<<0, 0>>, <<0, MaxKey>>, <<MaxKey, 0>>}

\* The operations a caller submits: Sets with a timestamp of the caller or the
\* zero timestamp, two values under one timestamp, a second column, Deletes.
Ops ==
    {SetOp("cf", "a", 0, "x"), SetOp("cf", "a", 3, "x"), SetOp("cf", "a", 3, "y"),
     SetOp("cf", "b", 3, "x"), DeleteOp("cf", "a")}

OpSeqs == UNION {[1..n -> Ops] : n \in 0..MaxOps}

\* The versions a mutation stores: zero timestamps stamped.
Stamped(m, clock) ==
    [m EXCEPT !.Ops = [i \in DOMAIN @ |->
        IF @[i].Type = "Set" /\ @[i].Timestamp = 0
        THEN [@[i] EXCEPT !.Timestamp = clock]
        ELSE @[i]]]

Init ==
    \E rg \in RootRanges :
        LET o == NewTablet(rg[1], rg[2], RootDir, EmptyMap, FirstClock)
        IN  /\ tablet = o.t
            /\ files = o.fs
            /\ now = FirstClock
            /\ ret = [err |-> o.err]
            /\ acked = <<>>
            /\ opened = 0
            /\ splits = 0
            /\ rootRange = rg
            /\ target = Nil
            /\ applied = Nil
            /\ pc = <<>>
            /\ local = <<>>
            /\ locks = EmptyMap
            /\ calls = 0
            /\ committed = EmptyMap
            /\ visible = <<>>
            /\ compaction = Nil
            /\ tablets = {}
            /\ master = Nil
            /\ report = Nil

DoMutate ==
    /\ tablet # Nil
    /\ \E key \in Keys, ops \in OpSeqs :
        LET m == RowMutation(key, ops)
            r == Mutate(tablet, m, files, now)
        IN  /\ r.err = "ok" => Len(acked) < MaxMutations
            /\ tablet' = r.t
            /\ files' = r.fs
            /\ ret' = [err |-> r.err]
            /\ acked' = IF r.err = "ok"
                        THEN Append(acked, [m |-> m, stored |-> Stamped(m, now)])
                        ELSE acked
    /\ UNCHANGED <<now, opened, splits, rootRange, applyVars, concVars, storeVars, lockVars, masterVars>>

DoRead ==
    /\ tablet # Nil
    /\ \E key \in Keys, f \in Families, q \in Qualifiers :
        LET r == Read(tablet, key, f, q, files)
        IN  ret' = [err |-> r.err]
    /\ UNCHANGED <<tablet, files, now, acked, opened, splits, rootRange, applyVars, concVars, storeVars, lockVars, masterVars>>

DoSplit ==
    /\ tablet # Nil
    /\ \E th \in Thresholds :
        LET r == Split(tablet, th, files, now)
        IN  /\ r.err # "BelowThreshold" => splits < MaxSplits
            /\ tablet' = r.t
            /\ files' = r.fs
            /\ splits' = IF r.err # "BelowThreshold" THEN splits + 1 ELSE splits
            /\ ret' = IF r.err = "ok"
                      THEN [err |-> r.err, left |-> r.left, right |-> r.right]
                      ELSE [err |-> r.err]
    /\ UNCHANGED <<now, acked, opened, rootRange, applyVars, concVars, storeVars, lockVars, masterVars>>

DoClose ==
    /\ tablet # Nil
    /\ LET r == Close(tablet)
       IN  /\ tablet' = r.t
           /\ ret' = [err |-> r.err]
    /\ UNCHANGED <<files, now, acked, opened, splits, rootRange, applyVars, concVars, storeVars, lockVars, masterVars>>

\* NewTablet on the root directory with the root's range: after Close, or with
\* the previous object lost in a crash.
DoOpen ==
    /\ LET o == NewTablet(rootRange[1], rootRange[2], RootDir, files, now)
       IN  /\ tablet' = o.t
           /\ files' = o.fs
           /\ ret' = [err |-> o.err]
    /\ opened' = Len(acked)
    /\ UNCHANGED <<now, acked, splits, rootRange, applyVars, concVars, storeVars, lockVars, masterVars>>

Tick ==
    /\ now < MaxClock
    /\ now' = now + 1
    /\ UNCHANGED <<tablet, files, ret, acked, opened, splits, rootRange, applyVars, concVars, storeVars, lockVars, masterVars>>

Next == DoMutate \/ DoRead \/ DoSplit \/ DoClose \/ DoOpen \/ Tick

Spec == Init /\ [][Next]_vars

(***************************************************************************)
(* Vocabulary of the properties.                                           *)
(***************************************************************************)
Range(seq) == {seq[i] : i \in DOMAIN seq}
Max(S) == CHOOSE x \in S : \A y \in S : x >= y
Cells == Families \X Qualifiers

\* The acknowledged operations on cell <<f, q>> of row key, in commit order, as
\* <<index in acked, index in Ops>> pairs.
AckedOn(key, f, q) ==
    {ij \in (DOMAIN acked) \X (1..MaxOps) :
        /\ acked[ij[1]].m.RowKey = key
        /\ ij[2] \in DOMAIN acked[ij[1]].m.Ops
        /\ acked[ij[1]].m.Ops[ij[2]].Family = f
        /\ acked[ij[1]].m.Ops[ij[2]].Qualifier = q}

AckedOp(ij) == acked[ij[1]].stored.Ops[ij[2]]
Later(ij, kl) == ij[1] > kl[1] \/ (ij[1] = kl[1] /\ ij[2] > kl[2])
AckedSets(key, f, q) == {ij \in AckedOn(key, f, q) : AckedOp(ij).Type = "Set"}
AckedDeletes(key, f, q) == {ij \in AckedOn(key, f, q) : AckedOp(ij).Type = "Delete"}

SplitReturned == ret.err = "ok" /\ "left" \in DOMAIN ret
\* A step that is a Split call returning its two tablets.
SplitStep == splits' = splits + 1 /\ ret'.err = "ok"

\* The row keys and the versions of a cell that tablet t holds, in its memtable
\* or in a listed SSTable.
FileRows(t, fs) == UNION {Range(fs[p]) : p \in Range(t.SSTables) \cap DOMAIN fs}
HeldRows(t, fs) == Range(Ascend(t.MemTable.tree)) \cup FileRows(t, fs)
HeldKeys(t, fs) == {r.Key : r \in HeldRows(t, fs)}
HeldVersions(t, fs, key, f, q) ==
    UNION {Range(r.Columns[ColKey(f, q)].Versions) :
            r \in {x \in HeldRows(t, fs) :
                    x.Key = key /\ ColKey(f, q) \in DOMAIN x.Columns}}

RECURSIVE SortedKeys(_)
SortedKeys(S) == IF S = {} THEN <<>> ELSE <<Min(S)>> \o SortedKeys(S \ {Min(S)})

(***************************************************************************)
(* C1  On one open tablet, after successful Mutates interleaved with       *)
(* Splits, Read of an in-range cell that was Set and never Deleted returns *)
(* a version with the greatest timestamp written to the cell; it is never  *)
(* absent.                                                                 *)
(***************************************************************************)
C1_ReadReturnsLatestWritten ==
    (tablet # Nil /\ opened = 0) =>
        \A key \in Keys, c \in Cells :
            (/\ InRange(tablet, key)
             /\ AckedSets(key, c[1], c[2]) # {}
             /\ AckedDeletes(key, c[1], c[2]) = {}) =>
                LET r == Read(tablet, key, c[1], c[2], files)
                IN  /\ r.err = "ok"
                    /\ r.ver.found
                    /\ r.ver.Timestamp =
                        Max({AckedOp(ij).Timestamp : ij \in AckedSets(key, c[1], c[2])})

(***************************************************************************)
(* C2  WAL durability: once every acknowledged mutation precedes the       *)
(* construction of the current root object (Close or crash, then NewTablet *)
(* on the same directory and range), NewTablet has succeeded and Read of a *)
(* cell returns the timestamp and value of the Set that wrote it, provided *)
(* no other operation touched the cell with a timestamp at least as great  *)
(* or deleted it later.  Stated for runs without Split and for Sets with a *)
(* timestamp of the caller.                                                *)
(***************************************************************************)
C2_WalDurability ==
    (opened = Len(acked) /\ splits = 0) =>
        /\ tablet # Nil
        /\ \A key \in Keys, c \in Cells :
            \A ij \in AckedSets(key, c[1], c[2]) :
                (/\ acked[ij[1]].m.Ops[ij[2]].Timestamp # 0
                 /\ \A kl \in AckedSets(key, c[1], c[2]) \ {ij} :
                        AckedOp(kl).Timestamp < AckedOp(ij).Timestamp
                 /\ \A kl \in AckedDeletes(key, c[1], c[2]) : Later(ij, kl)) =>
                    LET r == Read(tablet, key, c[1], c[2], files)
                    IN  /\ r.err = "ok"
                        /\ r.ver.found
                        /\ r.ver.Timestamp = AckedOp(ij).Timestamp
                        /\ r.ver.Value = AckedOp(ij).Value

(***************************************************************************)
(* C3  While the last acknowledged operation on a cell is a Delete, Read   *)
(* of the cell returns absent, also after a flush and after a reopen.      *)
(***************************************************************************)
C3_DeleteHidesCell ==
    tablet # Nil =>
        \A key \in Keys, c \in Cells :
            (/\ InRange(tablet, key)
             /\ AckedDeletes(key, c[1], c[2]) # {}
             /\ \A ij \in AckedSets(key, c[1], c[2]) :
                    \E kl \in AckedDeletes(key, c[1], c[2]) : Later(kl, ij)) =>
                LET r == Read(tablet, key, c[1], c[2], files)
                IN  r.err = "ok" /\ ~r.ver.found

(***************************************************************************)
(* C4  A file listed in the root's SSTables keeps its contents in every    *)
(* later step.                                                             *)
(***************************************************************************)
C4_ListedSSTableImmutable ==
    [][tablet # Nil =>
        \A p \in Range(tablet.SSTables) \cap DOMAIN files :
            p \in DOMAIN files' /\ files'[p] = files[p]]_vars

(***************************************************************************)
(* C5  Mutate and Read return the out-of-range error for exactly the keys  *)
(* below StartKey or, with a nonempty EndKey, at or above EndKey, on the   *)
(* root and on the tablets a Split returned; the rejected call leaves the  *)
(* tablet (memtable rows, SizeBytes, SSTables, commit log) and every file  *)
(* as they were.                                                           *)
(***************************************************************************)
Rejected(t, key) == key < t.StartKey \/ (t.EndKey # 0 /\ key >= t.EndKey)

TabletsInHand ==
    (IF tablet # Nil THEN {tablet} ELSE {})
        \cup (IF SplitReturned THEN {ret.left, ret.right} ELSE {})

C5_OutOfRangeRejection ==
    \A t \in TabletsInHand : \A key \in Keys :
        /\ \A ops \in OpSeqs :
            LET r == Mutate(t, RowMutation(key, ops), files, now)
            IN  /\ (r.err = "OutOfRange") <=> Rejected(t, key)
                /\ Rejected(t, key) => (r.t = t /\ r.fs = files)
        /\ \A c \in Cells :
            (Read(t, key, c[1], c[2], files).err = "OutOfRange") <=> Rejected(t, key)

C5_Witness == tablet # Nil /\ ret.err = "OutOfRange"

(***************************************************************************)
(* C6  At-most-one-range: after a successful Split every key of the        *)
(* parent's range is in the range of exactly one of left and right.        *)
(***************************************************************************)
RootAsRange == [StartKey |-> rootRange[1], EndKey |-> rootRange[2]]

C6_ExactlyOneChildRange ==
    SplitReturned =>
        \A k \in Keys :
            InRange(RootAsRange, k) => (InRange(ret.left, k) # InRange(ret.right, k))

(***************************************************************************)
(* C7  A successful Split at K puts every row of the parent below K into   *)
(* left only and every other row into right only, each cell readable from  *)
(* the parent before the call reads the same from the child the key goes   *)
(* to, and the children hold no version the parent did not hold.           *)
(***************************************************************************)
C7_SplitPreservesVisibility ==
    [][SplitStep =>
        LET K == ret'.right.StartKey
            L == ret'.left
            R == ret'.right
        IN  /\ \A key \in HeldKeys(tablet, files) :
                IF key < K
                THEN key \in HeldKeys(L, files') /\ key \notin HeldKeys(R, files')
                ELSE key \in HeldKeys(R, files') /\ key \notin HeldKeys(L, files')
            /\ \A key \in Keys, c \in Cells :
                LET before == Read(tablet, key, c[1], c[2], files)
                IN  (before.err = "ok" /\ before.ver.found) =>
                        Read(IF key < K THEN L ELSE R, key, c[1], c[2], files') = before
            /\ \A key \in Keys, c \in Cells :
                (HeldVersions(L, files', key, c[1], c[2])
                    \cup HeldVersions(R, files', key, c[1], c[2]))
                        \subseteq HeldVersions(tablet, files, key, c[1], c[2])]_vars

(***************************************************************************)
(* C8  A successful Split returns left = [StartKey, K) and right =         *)
(* [K, EndKey), K the key at index floor(n/2) of the n rows the tablet     *)
(* held, sorted ascending.                                                 *)
(***************************************************************************)
C8_SplitAtMedianKey ==
    [][SplitStep =>
        LET keys == SortedKeys(HeldKeys(tablet, files))
            K == keys[(Len(keys) \div 2) + 1]
        IN  /\ ret'.left.StartKey = tablet.StartKey
            /\ ret'.left.EndKey = K
            /\ ret'.right.StartKey = K
            /\ ret'.right.EndKey = tablet.EndKey]_vars
(***************************************************************************)
(* Row.Apply on its own: a row of ApplyKey, empty or holding what one      *)
(* operation left in it, takes one RowMutation of up to MaxApplyOps        *)
(* operations.                                                             *)
(***************************************************************************)
MaxApplyOps == 3
ApplyKey == MaxKey
ApplyTimestamps == {0, MaxClock}
ApplyValues == {"x", "y"}

ApplyAlphabet ==
    {SetOp(f, q, ts, v) :
        f \in Families, q \in Qualifiers, ts \in ApplyTimestamps, v \in ApplyValues}
    \cup {DeleteOp(f, q) : f \in Families, q \in Qualifiers}

ApplyOpSeqs == UNION {[1..n -> ApplyAlphabet] : n \in 0..MaxApplyOps}

\* The rows Row.Apply can meet: NewRow, or a row one operation was applied to.
ApplyRows(clock) ==
    {NewRow(ApplyKey)} \cup
    {RowApply(NewRow(ApplyKey), RowMutation(ApplyKey, <<op>>), clock).row :
        op \in ApplyAlphabet}

ApplyInit ==
    /\ now \in FirstClock..MaxClock
    /\ target \in ApplyRows(now)
    /\ applied = Nil
    /\ tablet = Nil
    /\ files = EmptyMap
    /\ ret = [err |-> "ok"]
    /\ acked = <<>>
    /\ opened = 0
    /\ splits = 0
    /\ rootRange = <<0, 0>>
    /\ pc = <<>>
    /\ local = <<>>
    /\ locks = EmptyMap
    /\ calls = 0
    /\ committed = EmptyMap
    /\ visible = <<>>
    /\ compaction = Nil
    /\ tablets = {}
    /\ master = Nil
    /\ report = Nil

DoApply ==
    /\ applied = Nil
    /\ \E ops \in ApplyOpSeqs :
        LET m == RowMutation(target.Key, ops)
            r == RowApply(target, m, now)
        IN  /\ target' = r.row
            /\ applied' = [before |-> target, m |-> m, err |-> r.err]
    /\ UNCHANGED <<tablet, files, now, tabletVars, concVars, storeVars, lockVars, masterVars>>

ApplyNext == DoApply

ApplySpec == ApplyInit /\ [][ApplyNext]_vars

Count(seq, x) == Cardinality({i \in DOMAIN seq : seq[i] = x})

\* What the operations of ops on cell c leave: the Sets listed after the last
\* Delete of c, and under them the versions of before when ops has no Delete
\* of c.
OpsOn(ops, c, type) ==
    {i \in DOMAIN ops :
        ops[i].Type = type /\ ops[i].Family = c[1] /\ ops[i].Qualifier = c[2]}
LastDelete(ops, c) == Max(OpsOn(ops, c, "Delete") \cup {0})
SurvivingSets(ops, c) == {i \in OpsOn(ops, c, "Set") : i > LastDelete(ops, c)}
Carried(before, ops, c) ==
    IF LastDelete(ops, c) = 0 /\ ColKey(c[1], c[2]) \in DOMAIN before.Columns
    THEN before.Columns[ColKey(c[1], c[2])].Versions
    ELSE <<>>
Written(op, clock) ==
    CellVersion(IF op.Timestamp = 0 THEN clock ELSE op.Timestamp, op.Value)

(***************************************************************************)
(* C9  Row.Apply applies the operations of a RowMutation in listed order:  *)
(* after it, a cell holds exactly the versions of the Sets listed after    *)
(* the last Delete of the cell (with the versions it held before when the  *)
(* mutation has no Delete of it), so [Set a, Set b, Delete a] leaves a     *)
(* absent and b readable, and a Set listed after a Delete of the same cell *)
(* leaves only the later Set's version.                                    *)
(***************************************************************************)
C9_ApplyInListedOrder ==
    (applied # Nil) =>
        /\ applied.err = "ok"
        /\ target.Key = applied.before.Key
        /\ DOMAIN target.Columns \subseteq {ColKey(c[1], c[2]) : c \in Cells}
        /\ \A c \in Cells :
            LET ops == applied.m.Ops
                colKey == ColKey(c[1], c[2])
                carried == Carried(applied.before, ops, c)
                sets == SurvivingSets(ops, c)
                expected == Range(carried) \cup {Written(ops[i], now) : i \in sets}
                got == RowGet(target, c[1], c[2])
            IN  /\ colKey \in DOMAIN target.Columns <=> expected # {}
                /\ got.found <=> expected # {}
                /\ got.found =>
                    /\ got.Timestamp = Max({v.Timestamp : v \in expected})
                    /\ Range(target.Columns[colKey].Versions) = expected
                    /\ \A v \in expected :
                        Count(target.Columns[colKey].Versions, v) =
                            Count(carried, v)
                                + Cardinality({i \in sets : Written(ops[i], now) = v})

\* [Set a, Set b, Delete a] was applied: a is absent, b is read.
C9_Witness ==
    /\ applied # Nil
    /\ Len(applied.m.Ops) = 3
    /\ applied.m.Ops[1].Type = "Set" /\ applied.m.Ops[1].Qualifier = "a"
    /\ applied.m.Ops[2].Type = "Set" /\ applied.m.Ops[2].Qualifier = "b"
    /\ applied.m.Ops[3].Type = "Delete" /\ applied.m.Ops[3].Qualifier = "a"
    /\ ~RowGet(target, "cf", "a").found
    /\ RowGet(target, "cf", "b").found
(***************************************************************************)
(* Mutate and Read called by concurrent threads on one tablet.  A thread   *)
(* takes one step per lock operation and per statement between them, and   *)
(* Row.Apply takes one step per operation of the mutation.  A mutex is its *)
(* writer (NoThread when free) and the set of its readers; a reader that   *)
(* sync.RWMutex holds back behind a waiting writer is not modelled, it     *)
(* only delays the reader.                                                 *)
(***************************************************************************)
MaxThreads == 2
MaxCalls == 3
Threads == 1..MaxThreads
NoThread == 0

TabletMu == "t.mu"
MemTableMu == "m.mu"
CommitLogMu == "l.mu"
RowMu(key) == "r.mu/" \o KeyStr(key)
Mutexes == {TabletMu, MemTableMu, CommitLogMu} \cup {RowMu(k) : k \in Keys}

NewMutex == [w |-> NoThread, r |-> {}]

\* RLock that does not wait for the writer.
RLockPastWriter(mu) == TRUE

\* Lock that does not wait for the holder.
LockPastHolder(mu) == TRUE

\* sync.RWMutex: RLock waits while a writer holds the mutex; Lock waits while
\* a writer or a reader holds it.
CanRLock(mu) == mu.w = NoThread
CanLock(mu) == mu.w = NoThread /\ mu.r = {}

ConcOpSeqs ==
    {<<SetOp("cf", "a", 0, "x"), SetOp("cf", "b", 0, "x")>>,
     <<SetOp("cf", "a", MaxClock, "x"), SetOp("cf", "a", MaxClock, "y")>>,
     <<SetOp("cf", "a", 0, "x"), DeleteOp("cf", "a")>>,
     <<DeleteOp("cf", "a"), SetOp("cf", "a", MaxClock, "y")>>}

\* A key in the range of the tablet and a key out of it.
ConcKeys == {0, MaxKey}

ConcMutations == {RowMutation(k, ops) : k \in ConcKeys, ops \in ConcOpSeqs}

IdleLocal ==
    [call |-> "none", m |-> RowMutation(0, <<>>), rowKey |-> 0,
     family |-> "cf", qualifier |-> "a", i |-> 0, found |-> FALSE,
     ver |-> Absent, observed |-> FALSE, err |-> "ok",
     best |-> Absent]

seqVars == <<now, tabletVars, applyVars, storeVars, lockVars, masterVars>>

ConcInit ==
    LET o == NewTablet(0, MaxKey, RootDir, EmptyMap, FirstClock)
    IN  /\ tablet = o.t
        /\ files = o.fs
        /\ now = FirstClock
        /\ ret = [err |-> o.err]
        /\ acked = <<>>
        /\ opened = 0
        /\ splits = 0
        /\ rootRange = <<0, MaxKey>>
        /\ target = Nil
        /\ applied = Nil
        /\ pc = [t \in Threads |-> "idle"]
        /\ local = [t \in Threads |-> IdleLocal]
        /\ locks = [mu \in Mutexes |-> NewMutex]
        /\ calls = 0
        /\ committed = [k \in Keys |-> {Nil}]
        /\ visible = <<>>
        /\ compaction = Nil
        /\ tablets = {}
        /\ master = Nil
        /\ report = Nil

CallMutate(t) ==
    /\ pc[t] = "idle"
    /\ calls < MaxCalls
    /\ \E m \in ConcMutations :
        local' = [local EXCEPT ![t] = [IdleLocal EXCEPT !.call = "Mutate", !.m = m]]
    /\ pc' = [pc EXCEPT ![t] = "Mutate: t.mu.Lock"]
    /\ calls' = calls + 1
    /\ UNCHANGED <<tablet, files, locks, committed, visible, seqVars>>

CallRead(t) ==
    /\ pc[t] = "idle"
    /\ calls < MaxCalls
    /\ \E key \in ConcKeys, c \in Cells :
        local' = [local EXCEPT ![t] =
                    [IdleLocal EXCEPT !.call = "Read", !.rowKey = key,
                                      !.family = c[1], !.qualifier = c[2]]]
    /\ pc' = [pc EXCEPT ![t] = "Read: t.mu.RLock"]
    /\ calls' = calls + 1
    /\ UNCHANGED <<tablet, files, locks, committed, visible, seqVars>>

\* Tablet.Mutate: t.mu.Lock()
MutateLock(t) ==
    /\ pc[t] = "Mutate: t.mu.Lock"
    /\ CanLock(locks[TabletMu])
    /\ locks' = [locks EXCEPT ![TabletMu].w = t]
    /\ pc' = [pc EXCEPT ![t] = "Mutate: InRange"]
    /\ UNCHANGED <<tablet, files, local, calls, committed, visible, seqVars>>

MutateInRange(t) ==
    /\ pc[t] = "Mutate: InRange"
    /\ IF InRange(tablet, local[t].m.RowKey)
       THEN /\ pc' = [pc EXCEPT ![t] = "Append: l.mu.Lock"]
            /\ local' = local
       ELSE /\ pc' = [pc EXCEPT ![t] = "Mutate: t.mu.Unlock"]
            /\ local' = [local EXCEPT ![t].err = "OutOfRange"]
    /\ UNCHANGED <<tablet, files, locks, calls, committed, visible, seqVars>>

\* CommitLog.Append: l.mu.Lock()
AppendLock(t) ==
    /\ pc[t] = "Append: l.mu.Lock"
    /\ CanLock(locks[CommitLogMu])
    /\ locks' = [locks EXCEPT ![CommitLogMu].w = t]
    /\ pc' = [pc EXCEPT ![t] = "Append: Encode"]
    /\ UNCHANGED <<tablet, files, local, calls, committed, visible, seqVars>>

\* CommitLog.Append: Encode and Sync
AppendEncode(t) ==
    /\ pc[t] = "Append: Encode"
    /\ LET a == CommitLogAppend(tablet.CommitLog, local[t].m, files)
       IN  /\ tablet' = [tablet EXCEPT !.CommitLog = a.l]
           /\ files' = a.fs
           /\ local' = [local EXCEPT ![t].err = a.err]
    /\ pc' = [pc EXCEPT ![t] = "Append: l.mu.Unlock"]
    /\ UNCHANGED <<locks, calls, committed, visible, seqVars>>

AppendUnlock(t) ==
    /\ pc[t] = "Append: l.mu.Unlock"
    /\ locks' = [locks EXCEPT ![CommitLogMu].w = NoThread]
    /\ pc' = [pc EXCEPT ![t] = IF local[t].err = "ok"
                               THEN "Apply: m.mu.Lock"
                               ELSE "Mutate: t.mu.Unlock"]
    /\ UNCHANGED <<tablet, files, local, calls, committed, visible, seqVars>>

\* MemTable.Apply: m.mu.Lock()
ApplyLock(t) ==
    /\ pc[t] = "Apply: m.mu.Lock"
    /\ CanLock(locks[MemTableMu])
    /\ locks' = [locks EXCEPT ![MemTableMu].w = t]
    /\ pc' = [pc EXCEPT ![t] = "Apply: find or create"]
    /\ UNCHANGED <<tablet, files, local, calls, committed, visible, seqVars>>

\* MemTable.Apply: find or create the row, add to SizeBytes.
ApplyFindOrCreate(t) ==
    /\ pc[t] = "Apply: find or create"
    /\ LET m == local[t].m
           exists == m.RowKey \in DOMAIN tablet.MemTable.tree
           created == IF exists THEN EmptyMap ELSE (m.RowKey :> NewRow(m.RowKey))
           size == (IF exists THEN 0 ELSE KeyLen(m.RowKey)) + estimateMutationSize(m.Ops)
       IN  tablet' = [tablet EXCEPT !.MemTable.tree = created @@ @,
                                    !.MemTable.SizeBytes = @ + size]
    /\ visible' = Append(visible, local[t].m)
    /\ pc' = [pc EXCEPT ![t] = "Row.Apply: r.mu.Lock"]
    /\ UNCHANGED <<files, local, locks, calls, committed, seqVars>>

\* Row.Apply: r.mu.Lock().  committed takes the row that the whole mutation
\* makes of the row as it is now.
RowApplyLock(t) ==
    /\ pc[t] = "Row.Apply: r.mu.Lock"
    /\ CanLock(locks[RowMu(local[t].m.RowKey)])
    /\ locks' = [locks EXCEPT ![RowMu(local[t].m.RowKey)].w = t]
    /\ local' = [local EXCEPT ![t].i = 1]
    /\ committed' = [committed EXCEPT ![local[t].m.RowKey] =
            @ \cup {RowApply(tablet.MemTable.tree[local[t].m.RowKey], local[t].m, now).row}]
    /\ pc' = [pc EXCEPT ![t] = "Row.Apply: op"]
    /\ UNCHANGED <<tablet, files, calls, visible, seqVars>>

\* Row.Apply: one turn of the loop over m.Ops.
RowApplyOp(t) ==
    /\ pc[t] = "Row.Apply: op"
    /\ local[t].i <= Len(local[t].m.Ops)
    /\ tablet' = [tablet EXCEPT !.MemTable.tree[local[t].m.RowKey] =
                    ApplyOp(@, local[t].m.Ops[local[t].i], now)]
    /\ local' = [local EXCEPT ![t].i = @ + 1]
    /\ UNCHANGED <<files, pc, locks, calls, committed, visible, seqVars>>

RowApplyUnlock(t) ==
    /\ pc[t] = "Row.Apply: op"
    /\ local[t].i > Len(local[t].m.Ops)
    /\ locks' = [locks EXCEPT ![RowMu(local[t].m.RowKey)].w = NoThread]
    /\ pc' = [pc EXCEPT ![t] = "Apply: m.mu.Unlock"]
    /\ UNCHANGED <<tablet, files, local, calls, committed, visible, seqVars>>

ApplyUnlock(t) ==
    /\ pc[t] = "Apply: m.mu.Unlock"
    /\ locks' = [locks EXCEPT ![MemTableMu].w = NoThread]
    /\ pc' = [pc EXCEPT ![t] = "Mutate: t.mu.Unlock"]
    /\ UNCHANGED <<tablet, files, local, calls, committed, visible, seqVars>>

MutateUnlock(t) ==
    /\ pc[t] = "Mutate: t.mu.Unlock"
    /\ locks' = [locks EXCEPT ![TabletMu].w = NoThread]
    /\ local' = [local EXCEPT ![t] = IdleLocal]
    /\ pc' = [pc EXCEPT ![t] = "idle"]
    /\ UNCHANGED <<tablet, files, calls, committed, visible, seqVars>>

\* Tablet.Read: t.mu.RLock()
ReadRLock(t) ==
    /\ pc[t] = "Read: t.mu.RLock"
    /\ CanRLock(locks[TabletMu])
    /\ locks' = [locks EXCEPT ![TabletMu].r = @ \cup {t}]
    /\ pc' = [pc EXCEPT ![t] = "Read: InRange"]
    /\ UNCHANGED <<tablet, files, local, calls, committed, visible, seqVars>>

ReadInRange(t) ==
    /\ pc[t] = "Read: InRange"
    /\ IF InRange(tablet, local[t].rowKey)
       THEN /\ pc' = [pc EXCEPT ![t] = "Get: m.mu.RLock"]
            /\ local' = local
       ELSE /\ pc' = [pc EXCEPT ![t] = "Read: t.mu.RUnlock"]
            /\ local' = [local EXCEPT ![t].err = "OutOfRange"]
    /\ UNCHANGED <<tablet, files, locks, calls, committed, visible, seqVars>>

\* MemTable.Get: m.mu.RLock()
GetRLock(t) ==
    /\ pc[t] = "Get: m.mu.RLock"
    /\ CanRLock(locks[MemTableMu])
    /\ locks' = [locks EXCEPT ![MemTableMu].r = @ \cup {t}]
    /\ pc' = [pc EXCEPT ![t] = "Get: tree.Get"]
    /\ UNCHANGED <<tablet, files, local, calls, committed, visible, seqVars>>

\* MemTable.Get: the row pointer or nil, and the deferred m.mu.RUnlock().
GetRow(t) ==
    /\ pc[t] = "Get: tree.Get"
    /\ local' = [local EXCEPT ![t].found = MemTableGet(tablet.MemTable, local[t].rowKey) # Nil]
    /\ locks' = [locks EXCEPT ![MemTableMu].r = @ \ {t}]
    /\ pc' = [pc EXCEPT ![t] = IF MemTableGet(tablet.MemTable, local[t].rowKey) # Nil
                               THEN "Row.Get: r.mu.RLock"
                               ELSE "Read: SSTables"]
    /\ UNCHANGED <<tablet, files, calls, committed, visible, seqVars>>

\* Row.Get: r.mu.RLock()
RowGetRLock(t) ==
    /\ pc[t] = "Row.Get: r.mu.RLock"
    /\ CanRLock(locks[RowMu(local[t].rowKey)])
    /\ locks' = [locks EXCEPT ![RowMu(local[t].rowKey)].r = @ \cup {t}]
    /\ pc' = [pc EXCEPT ![t] = "Row.Get: GetLatest"]
    /\ UNCHANGED <<tablet, files, local, calls, committed, visible, seqVars>>

\* Row.Get: the latest version of the column as the row is now, and the
\* deferred r.mu.RUnlock().
RowGetLatest(t) ==
    /\ pc[t] = "Row.Get: GetLatest"
    /\ local' = [local EXCEPT
            ![t].ver = RowGet(tablet.MemTable.tree[local[t].rowKey],
                              local[t].family, local[t].qualifier),
            ![t].observed = TRUE]
    /\ locks' = [locks EXCEPT ![RowMu(local[t].rowKey)].r = @ \ {t}]
    /\ pc' = [pc EXCEPT ![t] = "Read: SSTables"]
    /\ UNCHANGED <<tablet, files, calls, committed, visible, seqVars>>

\* Tablet.Read: the scan of the SSTables and the choice of the latest candidate.
ReadSSTables(t) ==
    /\ pc[t] = "Read: SSTables"
    /\ LET fromMem == IF local[t].ver.found THEN <<local[t].ver>> ELSE <<>>
           fromSST == SSTableCandidates(tablet.SSTables, 1, local[t].rowKey,
                                        local[t].family, local[t].qualifier, files)
       IN  local' = [local EXCEPT
                ![t].err = fromSST.err,
                ![t].best = IF fromSST.err = "ok"
                            THEN FindLatest(fromMem \o fromSST.candidates, 1, Absent)
                            ELSE Absent]
    /\ pc' = [pc EXCEPT ![t] = "Read: t.mu.RUnlock"]
    /\ UNCHANGED <<tablet, files, locks, calls, committed, visible, seqVars>>

ReadRUnlock(t) ==
    /\ pc[t] = "Read: t.mu.RUnlock"
    /\ locks' = [locks EXCEPT ![TabletMu].r = @ \ {t}]
    /\ local' = [local EXCEPT ![t] = IdleLocal]
    /\ pc' = [pc EXCEPT ![t] = "idle"]
    /\ UNCHANGED <<tablet, files, calls, committed, visible, seqVars>>

ConcNext ==
    \E t \in Threads :
        \/ CallMutate(t) \/ CallRead(t)
        \/ MutateLock(t) \/ MutateInRange(t)
        \/ AppendLock(t) \/ AppendEncode(t) \/ AppendUnlock(t)
        \/ ApplyLock(t) \/ ApplyFindOrCreate(t)
        \/ RowApplyLock(t) \/ RowApplyOp(t) \/ RowApplyUnlock(t)
        \/ ApplyUnlock(t) \/ MutateUnlock(t)
        \/ ReadRLock(t) \/ ReadInRange(t)
        \/ GetRLock(t) \/ GetRow(t)
        \/ RowGetRLock(t) \/ RowGetLatest(t)
        \/ ReadSSTables(t) \/ ReadRUnlock(t)

ConcSpec == ConcInit /\ [][ConcNext]_vars

\* What Row.Get returns on a row that a whole number of mutations made.
WholeRowReads(key, family, qualifier) ==
    {IF r = Nil THEN Absent ELSE RowGet(r, family, qualifier) : r \in committed[key]}

\* A thread is between two operations of its multi-operation mutation.
MidMutation(t) ==
    /\ pc[t] = "Row.Apply: op"
    /\ local[t].i > 1
    /\ local[t].i <= Len(local[t].m.Ops)

(***************************************************************************)
(* C10  With Mutate of a multi-operation RowMutation and Reads running     *)
(* concurrently on one tablet, what a Read takes from the row, and what it *)
(* returns, is what the row holds before or after whole mutations: never a *)
(* row to which only some operations of a mutation are applied.            *)
(***************************************************************************)
C10_NoPartialRead ==
    \A t \in DOMAIN pc :
        local[t].call = "Read" =>
            /\ local[t].observed =>
                local[t].ver \in
                    WholeRowReads(local[t].rowKey, local[t].family, local[t].qualifier)
            /\ (pc[t] = "Read: t.mu.RUnlock" /\ local[t].err = "ok") =>
                local[t].best \in
                    WholeRowReads(local[t].rowKey, local[t].family, local[t].qualifier)
            /\ pc[t] \in {"Row.Get: r.mu.RLock", "Row.Get: GetLatest"} =>
                \A w \in DOMAIN pc : ~MidMutation(w)

\* A Read has taken a version from a row while another thread's call of
\* Mutate with a two-operation mutation of that row waits for the tablet.
C10_Witness ==
    \E t \in DOMAIN pc, w \in DOMAIN pc :
        /\ local[t].call = "Read"
        /\ pc[t] = "Read: SSTables"
        /\ local[t].observed
        /\ local[t].ver.found
        /\ pc[w] = "Mutate: t.mu.Lock"
        /\ local[w].m.RowKey = local[t].rowKey
        /\ Len(local[w].m.Ops) = 2

\* The mutations of the records of the commit log, in file order.
WalMutations == [i \in DOMAIN files[tablet.CommitLog.path] |->
                    files[tablet.CommitLog.path][i].m]

IsPrefix(p, q) == Len(p) <= Len(q) /\ SubSeq(q, 1, Len(p)) = p

(***************************************************************************)
(* C11  With any number of threads in Mutate on one tablet, a mutation is  *)
(* in the WAL (encoded and synced) before MemTable.Apply takes it up, and  *)
(* the mutations are taken up by the memtable in the order of their        *)
(* records in the WAL: at most the last record is not yet taken up, by a   *)
(* thread that is between Append and MemTable.Apply.                       *)
(***************************************************************************)
C11_WalOrderIsMemtableOrder ==
    (DOMAIN pc # {}) =>
        /\ IsPrefix(visible, WalMutations)
        /\ Len(WalMutations) <= Len(visible) + 1
        /\ Len(WalMutations) = Len(visible) + 1 =>
            \E t \in DOMAIN pc :
                /\ pc[t] \in {"Append: l.mu.Unlock", "Apply: m.mu.Lock",
                             "Apply: find or create"}
                /\ local[t].m = WalMutations[Len(WalMutations)]

\* Two different mutations went through WAL and memtable, the second called
\* while the first was in Mutate, and a third call of Mutate waits.
C11_Witness ==
    /\ DOMAIN pc # {}
    /\ Len(visible) = 2
    /\ visible[1] # visible[2]
    /\ WalMutations = visible
    /\ \E t \in DOMAIN pc, w \in DOMAIN pc :
        /\ pc[t] = "Row.Apply: op"
        /\ pc[w] = "Mutate: t.mu.Lock"

(***************************************************************************)
(* C12  When CommitLog.Append fails inside Mutate (the log file is closed) *)
(* Mutate returns the error and leaves the tablet as it was: the rows of   *)
(* the memtable, MemTable.SizeBytes and the files are unchanged.           *)
(***************************************************************************)
C12_FailedAppendLeavesMemTable ==
    (tablet # Nil /\ DOMAIN pc = {} /\ tablet.CommitLog.file # "open") =>
        \A key \in Keys, ops \in OpSeqs :
            InRange(tablet, key) =>
                LET r == Mutate(tablet, RowMutation(key, ops), files, now)
                IN  /\ r.err = "IOFailure"
                    /\ r.t.MemTable.tree = tablet.MemTable.tree
                    /\ r.t.MemTable.SizeBytes = tablet.MemTable.SizeBytes
                    /\ r.t = tablet
                    /\ r.fs = files

\* A call on the closed tablet, whose memtable holds a row, failed with the
\* I/O error.
C12_Witness ==
    /\ tablet # Nil
    /\ DOMAIN pc = {}
    /\ tablet.CommitLog.file # "open"
    /\ DOMAIN tablet.MemTable.tree # {}
    /\ ret.err = "IOFailure"

(***************************************************************************)
(* A caller that drives the storage functions one by one on the root       *)
(* tablet: Mutate, MemTable.Flush to a path of the tablet's directory that *)
(* does not exist yet, Compact of files of the directory into a new file   *)
(* of it, NewTablet on the directory, Read.                                *)
(***************************************************************************)
MaxStoreMutations == 3
MaxFlushes == 2
MaxCompactions == 1
MaxInputs == 2

StoreKeys == {0, MaxKey}
StoreOps ==
    {SetOp("cf", "a", MaxClock, "x"), SetOp("cf", "a", MaxClock, "y"),
     SetOp("cf", "a", 0, "x"), DeleteOp("cf", "a")}

\* The .sst files of the root directory, in the order of SSTFileNames.
StorePaths(fs) == LoadSSTables(RootDir, 1, fs)
Flushes(fs) == Cardinality({i \in DOMAIN FlushNames : Join(RootDir, FlushNames[i]) \in DOMAIN fs})
Compactions(fs) ==
    Cardinality({i \in DOMAIN CompactNames : Join(RootDir, CompactNames[i]) \in DOMAIN fs})
InputLists(fs) == UNION {[1..n -> Range(StorePaths(fs))] : n \in 0..MaxInputs}

StoreInit ==
    LET o == NewTablet(0, 0, RootDir, EmptyMap, FirstClock)
    IN  /\ tablet = o.t
        /\ files = o.fs
        /\ now = FirstClock
        /\ ret = [err |-> o.err]
        /\ acked = <<>>
        /\ opened = 0
        /\ splits = 0
        /\ rootRange = <<0, 0>>
        /\ target = Nil
        /\ applied = Nil
        /\ pc = <<>>
        /\ local = <<>>
        /\ locks = EmptyMap
        /\ calls = 0
        /\ committed = EmptyMap
        /\ visible = <<>>
        /\ compaction = Nil
        /\ tablets = {}
        /\ master = Nil
        /\ report = Nil

StoreMutate ==
    /\ tablet # Nil
    /\ Len(acked) < MaxStoreMutations
    /\ \E key \in StoreKeys, op \in StoreOps :
        LET m == RowMutation(key, <<op>>)
            r == Mutate(tablet, m, files, now)
        IN  /\ tablet' = r.t
            /\ files' = r.fs
            /\ ret' = [err |-> r.err]
            /\ acked' = IF r.err = "ok"
                        THEN Append(acked, [m |-> m, stored |-> Stamped(m, now)])
                        ELSE acked
    /\ UNCHANGED <<now, opened, splits, rootRange, applyVars, concVars, storeVars, lockVars, masterVars>>

\* t.MemTable.Flush(path)
StoreFlush ==
    /\ tablet # Nil
    /\ Flushes(files) < MaxFlushes
    /\ LET path == Join(tablet.Dir, FlushNames[Flushes(files) + 1])
           r == Flush(tablet.MemTable, path, files)
       IN  /\ tablet' = [tablet EXCEPT !.MemTable = r.mt]
           /\ files' = r.fs
    /\ ret' = [err |-> "ok"]
    /\ UNCHANGED <<now, acked, opened, splits, rootRange, applyVars, concVars, storeVars, lockVars, masterVars>>

StoreCompact ==
    /\ Compactions(files) < MaxCompactions
    /\ \E inputPaths \in InputLists(files) :
        LET outputPath == Join(RootDir, CompactNames[Compactions(files) + 1])
            r == Compact(inputPaths, outputPath, files)
        IN  /\ files' = r.fs
            /\ ret' = [err |-> r.err]
            /\ compaction' = [inputPaths |-> inputPaths, outputPath |-> outputPath,
                              err |-> r.err,
                              inputs |-> [i \in DOMAIN inputPaths |-> files[inputPaths[i]]]]
    /\ UNCHANGED <<tablet, now, acked, opened, splits, rootRange, applyVars, concVars, lockVars, masterVars>>

\* NewTablet on the directory, once, with the first object lost in a crash.
StoreOpen ==
    /\ opened = 0
    /\ Len(acked) > 0
    /\ LET o == NewTablet(rootRange[1], rootRange[2], RootDir, files, now)
       IN  /\ tablet' = o.t
           /\ files' = o.fs
           /\ ret' = [err |-> o.err]
    /\ opened' = Len(acked)
    /\ UNCHANGED <<now, acked, splits, rootRange, applyVars, concVars, storeVars, lockVars, masterVars>>

StoreRead ==
    /\ tablet # Nil
    /\ \E key \in StoreKeys, c \in Cells :
        LET r == Read(tablet, key, c[1], c[2], files)
        IN  ret' = [err |-> r.err]
    /\ UNCHANGED <<tablet, files, now, acked, opened, splits, rootRange,
                   applyVars, concVars, storeVars, lockVars, masterVars>>

StoreNext ==
    StoreMutate \/ StoreFlush \/ StoreCompact \/ StoreOpen \/ StoreRead

StoreSpec == StoreInit /\ [][StoreNext]_vars

SortedDescending(versions) ==
    \A i \in 1..(Len(versions) - 1) :
        versions[i].Timestamp >= versions[i + 1].Timestamp

RowsSorted(rows) ==
    \A r \in rows : \A colKey \in DOMAIN r.Columns :
        SortedDescending(r.Columns[colKey].Versions)

(***************************************************************************)
(* C13  In every reachable state the Versions of every Column held in the  *)
(* memtable, written to an SSTable by Flush or written by Compact are      *)
(* sorted by timestamp, non-increasing, whatever the order and the         *)
(* timestamps of the Sets, timestamp 0 stamped from the clock included.    *)
(***************************************************************************)
C13_VersionsSortedDescending ==
    /\ (tablet # Nil /\ DOMAIN pc = {}) =>
            RowsSorted(Range(Ascend(tablet.MemTable.tree)))
    /\ \A path \in Range(StorePaths(files)) : RowsSorted(Range(files[path]))

\* Compact of two different files wrote a column of at least three versions
\* with different timestamps, and the memtable holds a column of two versions
\* with different timestamps.
C13_Witness ==
    /\ compaction # Nil
    /\ compaction.err = "ok"
    /\ Len(compaction.inputPaths) = 2
    /\ compaction.inputPaths[1] # compaction.inputPaths[2]
    /\ \E r \in Range(files[compaction.outputPath]) :
        \E colKey \in DOMAIN r.Columns :
            /\ Len(r.Columns[colKey].Versions) >= 3
            /\ r.Columns[colKey].Versions[1].Timestamp
                    > r.Columns[colKey].Versions[Len(r.Columns[colKey].Versions)].Timestamp
    /\ tablet # Nil
    /\ \E r \in Range(Ascend(tablet.MemTable.tree)) :
        \E colKey \in DOMAIN r.Columns :
            /\ Len(r.Columns[colKey].Versions) >= 2
            /\ r.Columns[colKey].Versions[1].Timestamp
                    > r.Columns[colKey].Versions[2].Timestamp

\* The rows of the inputs of the last Compact, input by input in list order.
RECURSIVE Concat(_)
Concat(seqs) == IF seqs = <<>> THEN <<>> ELSE Head(seqs) \o Concat(Tail(seqs))
InputRows == Concat(compaction.inputs)
InputVersions(key, colKey) ==
    Concat([i \in DOMAIN InputRows |->
                IF InputRows[i].Key = key /\ colKey \in DOMAIN InputRows[i].Columns
                THEN InputRows[i].Columns[colKey].Versions
                ELSE <<>>])
\* What Read finds for a cell in the SSTables inputs, listed in this order.
LatestOfInputs(key, f, q) ==
    LET c == SSTableCandidates([i \in DOMAIN compaction.inputs |-> i], 1,
                               key, f, q, compaction.inputs)
    IN  FindLatest(c.candidates, 1, Absent)

FailedSplitStep ==
    /\ tablet # Nil
    /\ \/ splits' = splits + 1 /\ ret'.err # "ok"
       \/ splits' = splits /\ ret'.err = "BelowThreshold" /\ tablet' # Nil

(***************************************************************************)
(* C15  A Split call that returns an error leaves the parent as it was:    *)
(* the rows of the memtable, MemTable.SizeBytes, the SSTables list and the *)
(* contents of the listed files are unchanged, and every Read on the       *)
(* parent returns what it returned before the call.                        *)
(***************************************************************************)
C15_FailedSplitLeavesParent ==
    [][FailedSplitStep =>
        /\ tablet'.MemTable.tree = tablet.MemTable.tree
        /\ tablet'.MemTable.SizeBytes = tablet.MemTable.SizeBytes
        /\ tablet'.SSTables = tablet.SSTables
        /\ \A path \in Range(tablet.SSTables) : files'[path] = files[path]
        /\ \A key \in Keys, c \in Cells :
            Read(tablet', key, c[1], c[2], files') = Read(tablet, key, c[1], c[2], files)]_vars

\* A step that is a Split call on the root that passed the threshold check.
FlushingSplitStep == tablet # Nil /\ splits' = splits + 1

(***************************************************************************)
(* C16  Split fails with the not-enough-rows error whenever the tablet     *)
(* holds fewer than two distinct row keys, in its memtable and its listed  *)
(* SSTables together, also when several entries of the SSTables list hold  *)
(* the same row key.                                                       *)
(***************************************************************************)
C16_NotEnoughRowsBelowTwoKeys ==
    [][(FlushingSplitStep /\ Cardinality(HeldKeys(tablet, files)) < 2) =>
        ret'.err = "NotEnoughRows"]_vars

(***************************************************************************)
(* C17  After a successful MemTable.Flush (the one Split makes) the        *)
(* memtable holds no rows and MemTable.SizeBytes is 0, and a new SSTable   *)
(* holding exactly the rows the memtable held, in ascending key order, is  *)
(* appended to the tablet's SSTables.                                      *)
(***************************************************************************)
C17_FlushEmptiesMemTable ==
    [][FlushingSplitStep =>
        /\ tablet'.MemTable.tree = EmptyMap
        /\ tablet'.MemTable.SizeBytes = 0
        /\ Len(tablet'.SSTables) = Len(tablet.SSTables) + 1
        /\ SubSeq(tablet'.SSTables, 1, Len(tablet.SSTables)) = tablet.SSTables
        /\ files'[tablet'.SSTables[Len(tablet'.SSTables)]] = Ascend(tablet.MemTable.tree)]_vars

\* versions with version v put after the last version of v's timestamp, or
\* where the descending order puts it when no version has that timestamp.
InsertedAfterEquals(versions, v) ==
    LET notAfter == {i \in DOMAIN versions : versions[i].Timestamp >= v.Timestamp}
        idx == Max(notAfter \cup {0})
    IN  SubSeq(versions, 1, idx) \o <<v>> \o SubSeq(versions, idx + 1, Len(versions))

(***************************************************************************)
(* C18  Column.Insert of a version whose timestamp equals that of versions *)
(* already in the column places the new version after all of them, so      *)
(* GetLatest keeps returning the version inserted first among equal        *)
(* timestamps.  Stated for Row.Apply of one Set on a row that holds the    *)
(* column.                                                                 *)
(***************************************************************************)
C18_EqualTimestampKeepsFirst ==
    (/\ applied # Nil
     /\ Len(applied.m.Ops) = 1
     /\ applied.m.Ops[1].Type = "Set") =>
        LET op == applied.m.Ops[1]
            colKey == ColKey(op.Family, op.Qualifier)
            v == Written(op, now)
        IN  (/\ colKey \in DOMAIN applied.before.Columns
             /\ \E i \in DOMAIN applied.before.Columns[colKey].Versions :
                    applied.before.Columns[colKey].Versions[i].Timestamp = v.Timestamp) =>
                /\ target.Columns[colKey].Versions =
                    InsertedAfterEquals(applied.before.Columns[colKey].Versions, v)
                /\ applied.before.Columns[colKey].Versions[1].Timestamp = v.Timestamp =>
                    RowGet(target, op.Family, op.Qualifier)
                        = RowGet(applied.before, op.Family, op.Qualifier)

\* The candidates of a Read: of the memtable, and of each listed SSTable.
MemCandidate(t, key, f, q) ==
    IF MemTableGet(t.MemTable, key) = Nil
    THEN <<>>
    ELSE RowCandidate(<<MemTableGet(t.MemTable, key)>>, 1, key, f, q)
SSTCandidate(t, fs, i, key, f, q) == RowCandidate(fs[t.SSTables[i]], 1, key, f, q)

(***************************************************************************)
(* C19  When several candidates of a Read have the same greatest           *)
(* timestamp, Read returns the candidate of the memtable if the memtable   *)
(* has one of them, and otherwise the one of the SSTable latest in the     *)
(* SSTables list.                                                          *)
(***************************************************************************)
C19_TieGoesToMemTableThenNewest ==
    (tablet # Nil /\ DOMAIN pc = {}) =>
        \A key \in StoreKeys, c \in Cells :
            LET mem == MemCandidate(tablet, key, c[1], c[2])
                holders == {i \in DOMAIN tablet.SSTables :
                                SSTCandidate(tablet, files, i, key, c[1], c[2]) # <<>>}
                stamps == {mem[i].Timestamp : i \in DOMAIN mem} \cup
                          {SSTCandidate(tablet, files, i, key, c[1], c[2])[1].Timestamp :
                                i \in holders}
                top == Max(stamps)
                newest == Max({i \in holders :
                    SSTCandidate(tablet, files, i, key, c[1], c[2])[1].Timestamp = top})
                r == Read(tablet, key, c[1], c[2], files)
            IN  stamps # {} =>
                    /\ r.err = "ok"
                    /\ r.ver = IF mem # <<>> /\ mem[1].Timestamp = top
                               THEN mem[1]
                               ELSE SSTCandidate(tablet, files, newest, key, c[1], c[2])[1]

\* A step that is NewTablet on the root directory, succeeding, after
\* mutations on the previous root object.
ReopenStep == tablet # Nil /\ tablet' # Nil /\ opened' # opened

(***************************************************************************)
(* C20  Recovery reproduces the state before the restart: for every        *)
(* in-range cell, Read on the tablet NewTablet returns gives the timestamp *)
(* and value that Read gave on the tablet before, also for versions        *)
(* written with timestamp 0 and stamped by the engine.                     *)
(***************************************************************************)
C20_RecoveryKeepsReads ==
    [][ReopenStep =>
        \A key \in Keys, c \in Cells :
            InRange(tablet, key) =>
                Read(tablet', key, c[1], c[2], files') = Read(tablet, key, c[1], c[2], files)]_vars
(***************************************************************************)
(* C21  After any number of open / Mutate / Close sessions on the root     *)
(* directory, a further NewTablet succeeds and CommitLog.Recover returns   *)
(* the mutations of every session, all of them, in commit order.           *)
(***************************************************************************)
AckedMutations == [i \in DOMAIN acked |-> acked[i].m]

C21_RecoverAcrossSessions ==
    LET l == NewCommitLog(Join(RootDir, WalName), files)
        rec == Recover(l.l, l.fs)
    IN  /\ rec.err = "ok"
        /\ rec.mutations = AckedMutations
        /\ NewTablet(rootRange[1], rootRange[2], RootDir, files, now).err = "ok"
(***************************************************************************)
(* C22  Every successful Split creates its two children in fresh           *)
(* directories: the two directories differ from each other and from the    *)
(* parent's, and before the call neither held a file (WAL or SSTable), so  *)
(* NewTablet on each gives an empty tablet.                                *)
(***************************************************************************)
FilesIn(dir, fs) == {path \in DOMAIN fs : FilepathDir(path) = dir}

C22_SplitChildrenInFreshDirs ==
    [][SplitStep =>
        /\ ret'.left.Dir # ret'.right.Dir
        /\ ret'.left.Dir # tablet.Dir
        /\ ret'.right.Dir # tablet.Dir
        /\ FilesIn(ret'.left.Dir, files) = {}
        /\ FilesIn(ret'.right.Dir, files) = {}]_vars
(***************************************************************************)
(* C23  Split(thresholdBytes) returns the below-threshold error exactly    *)
(* when MemTable.SizeBytes < thresholdBytes, and in that case the tablet   *)
(* (memtable, SSTables list) and the files are as before the call and no   *)
(* child tablet is returned: no flush, no file, no child directory.        *)
(***************************************************************************)
C23_BelowThresholdIffSmall ==
    tablet # Nil =>
        \A th \in Thresholds :
            LET r == Split(tablet, th, files, now)
            IN  /\ (r.err = "BelowThreshold") <=> (tablet.MemTable.SizeBytes < th)
                /\ r.err = "BelowThreshold" =>
                    /\ r.t = tablet
                    /\ r.fs = files
                    /\ r.left = Nil
                    /\ r.right = Nil

\* A Split has returned the below-threshold error on a memtable holding rows.
C23_Witness ==
    /\ tablet # Nil
    /\ ret.err = "BelowThreshold"
    /\ tablet.MemTable.tree # EmptyMap
    /\ tablet.MemTable.SizeBytes > 0
(***************************************************************************)
(* The locks of Mutate, Read, Split and Close called by concurrent threads *)
(* on the root tablet and on the children that Split returned.  Every      *)
(* tablet object has its own t.mu, m.mu, l.mu and row mutexes; a thread    *)
(* takes one step per lock operation.  What a call does between two lock   *)
(* operations is left out, and a condition on the data (InRange, the size  *)
(* check, the number of rows read, a row found, an I/O error) is taken     *)
(* both ways, so the lock operations of every path of the code are there.  *)
(* sync.RWMutex.Lock is two steps: the writer announces itself (from then  *)
(* on RLock waits), then takes the mutex once the readers have left.       *)
(***************************************************************************)
MaxSplitRows == 2
RootTablet == 1
\* The children of the Split started as call number n.
LeftOf(n) == 2 * n
RightOf(n) == 2 * n + 1
TabletIds == 1..RightOf(MaxCalls)
MuOf(tab, name) == <<tab, name>>
LockMutexes ==
    TabletIds \X ({TabletMu, MemTableMu, CommitLogMu} \cup {RowMu(k) : k \in ConcKeys})

NewRWMutex == [w |-> NoThread, r |-> {}, p |-> NoThread]

LockIdle ==
    [call |-> "none", tab |-> 0, key |-> 0, parent |-> 0, left |-> 0, right |-> 0,
     rows |-> 0, replay |-> FALSE, err |-> "ok"]

dataVars ==
    <<tablet, files, committed, visible, now, tabletVars, applyVars, storeVars, masterVars>>

LockInit ==
    /\ tablet = Nil
    /\ files = EmptyMap
    /\ now = FirstClock
    /\ ret = [err |-> "ok"]
    /\ acked = <<>>
    /\ opened = 0
    /\ splits = 0
    /\ rootRange = <<0, 0>>
    /\ target = Nil
    /\ applied = Nil
    /\ pc = [t \in Threads |-> "idle"]
    /\ local = [t \in Threads |-> LockIdle]
    /\ locks = [mu \in LockMutexes |-> NewRWMutex]
    /\ calls = 0
    /\ committed = EmptyMap
    /\ visible = <<>>
    /\ compaction = Nil
    /\ tablets = {RootTablet}
    /\ master = Nil
    /\ report = Nil

\* The places where a thread is about to take a mutex, by the kind of lock.
WriteSites ==
    {"Mutate: t.mu.Lock", "Split: t.mu.Lock", "Close: t.mu.Lock",
     "Apply: m.mu.Lock", "Flush: m.mu.Lock", "Row.Apply: r.mu.Lock"}
ReadSites == {"Read: t.mu.RLock", "Get: m.mu.RLock", "Row.Get: r.mu.RLock"}
MutexSites == {"Append: l.mu.Lock", "Close: l.mu.Lock", "Recover: l.mu.Lock"}

\* The mutex that thread t is about to take.
Wanted(t) ==
    IF pc[t] \in {"Mutate: t.mu.Lock", "Split: t.mu.Lock", "Close: t.mu.Lock",
                  "Read: t.mu.RLock"}
    THEN MuOf(local[t].tab, TabletMu)
    ELSE IF pc[t] \in {"Apply: m.mu.Lock", "Flush: m.mu.Lock", "Get: m.mu.RLock"}
    THEN MuOf(local[t].tab, MemTableMu)
    ELSE IF pc[t] \in {"Row.Apply: r.mu.Lock", "Row.Get: r.mu.RLock"}
    THEN MuOf(local[t].tab, RowMu(local[t].key))
    ELSE MuOf(local[t].tab, CommitLogMu)

\* sync.RWMutex.Lock, second half; Unlock; RLock; RUnlock; sync.Mutex.Lock.
RWLock(t, mu) ==
    /\ locks[mu].p = t
    /\ locks[mu].r = {}
    /\ locks' = [locks EXCEPT ![mu].w = t, ![mu].p = NoThread]
RWUnlock(t, mu) == locks' = [locks EXCEPT ![mu].w = NoThread]
RWRLock(t, mu) ==
    /\ locks[mu].w = NoThread
    /\ locks[mu].p = NoThread
    /\ locks' = [locks EXCEPT ![mu].r = @ \cup {t}]
RWRUnlock(t, mu) == locks' = [locks EXCEPT ![mu].r = @ \ {t}]
MutexLock(t, mu) ==
    /\ locks[mu].w = NoThread
    /\ locks' = [locks EXCEPT ![mu].w = t]

Goto(t, label) == pc' = [pc EXCEPT ![t] = label]

\* The tablets that Split gives the rows to: Mutate is called on the parent
\* as well.
ChildrenAndParent(l) == {l.left, l.right, l.parent}

\* The tablets that Split gives the rows to.
Children(l) == {l.left, l.right}

\* The locals of a call on tablet tab; the call that is number n, if it is a
\* Split, will make the children LeftOf(n) and RightOf(n).
LockLocal(call, tab, key, n) ==
    [LockIdle EXCEPT !.call = call, !.tab = tab, !.key = key,
        !.parent = IF call = "Split" THEN tab ELSE 0,
        !.left = IF call = "Split" THEN LeftOf(n) ELSE 0,
        !.right = IF call = "Split" THEN RightOf(n) ELSE 0]

LkCallMutate(t) ==
    /\ pc[t] = "idle"
    /\ calls < MaxCalls
    /\ \E tab \in tablets, key \in ConcKeys :
        local' = [local EXCEPT ![t] = LockLocal("Mutate", tab, key, calls + 1)]
    /\ Goto(t, "Mutate: t.mu.Lock")
    /\ calls' = calls + 1
    /\ UNCHANGED <<locks, tablets, dataVars>>

LkCallRead(t) ==
    /\ pc[t] = "idle"
    /\ calls < MaxCalls
    /\ \E tab \in tablets, key \in ConcKeys :
        local' = [local EXCEPT ![t] = LockLocal("Read", tab, key, calls + 1)]
    /\ Goto(t, "Read: t.mu.RLock")
    /\ calls' = calls + 1
    /\ UNCHANGED <<locks, tablets, dataVars>>

LkCallSplit(t) ==
    /\ pc[t] = "idle"
    /\ calls < MaxCalls
    /\ \E tab \in tablets :
        local' = [local EXCEPT ![t] = LockLocal("Split", tab, 0, calls + 1)]
    /\ Goto(t, "Split: t.mu.Lock")
    /\ calls' = calls + 1
    /\ UNCHANGED <<locks, tablets, dataVars>>

LkCallClose(t) ==
    /\ pc[t] = "idle"
    /\ calls < MaxCalls
    /\ \E tab \in tablets :
        local' = [local EXCEPT ![t] = LockLocal("Close", tab, 0, calls + 1)]
    /\ Goto(t, "Close: t.mu.Lock")
    /\ calls' = calls + 1
    /\ UNCHANGED <<locks, tablets, dataVars>>

\* sync.RWMutex.Lock, first half: the writer has the writers' mutex and
\* announces itself to the readers.
LkAnnounce(t) ==
    /\ pc[t] \in WriteSites
    /\ locks[Wanted(t)].w = NoThread
    /\ locks[Wanted(t)].p = NoThread
    /\ locks' = [locks EXCEPT ![Wanted(t)].p = t]
    /\ UNCHANGED <<pc, local, calls, tablets, dataVars>>

\* Tablet.Mutate: t.mu.Lock()
LkMutateLock(t) ==
    /\ pc[t] = "Mutate: t.mu.Lock"
    /\ RWLock(t, Wanted(t))
    /\ Goto(t, "Mutate: InRange")
    /\ UNCHANGED <<local, calls, tablets, dataVars>>

LkMutateInRange(t) ==
    /\ pc[t] = "Mutate: InRange"
    /\ \E inRange \in BOOLEAN :
        IF inRange
        THEN /\ Goto(t, "Append: l.mu.Lock")
             /\ local' = local
        ELSE /\ Goto(t, "Mutate: t.mu.Unlock")
             /\ local' = [local EXCEPT ![t].err = "OutOfRange"]
    /\ UNCHANGED <<locks, calls, tablets, dataVars>>

\* CommitLog.Append: l.mu.Lock()
LkAppendLock(t) ==
    /\ pc[t] = "Append: l.mu.Lock"
    /\ MutexLock(t, Wanted(t))
    /\ Goto(t, "Append: Encode")
    /\ UNCHANGED <<local, calls, tablets, dataVars>>

\* CommitLog.Append: Encode, Sync and the deferred l.mu.Unlock().
LkAppendUnlock(t) ==
    /\ pc[t] = "Append: Encode"
    /\ RWUnlock(t, MuOf(local[t].tab, CommitLogMu))
    /\ \E written \in BOOLEAN :
        IF written
        THEN /\ Goto(t, "Apply: m.mu.Lock")
             /\ local' = local
        ELSE /\ Goto(t, "Mutate: t.mu.Unlock")
             /\ local' = [local EXCEPT ![t].err = "IOFailure"]
    /\ UNCHANGED <<calls, tablets, dataVars>>

\* MemTable.Apply: m.mu.Lock()
LkApplyLock(t) ==
    /\ pc[t] = "Apply: m.mu.Lock"
    /\ RWLock(t, Wanted(t))
    /\ Goto(t, "Row.Apply: r.mu.Lock")
    /\ UNCHANGED <<local, calls, tablets, dataVars>>

\* Row.Apply: r.mu.Lock()
LkRowApplyLock(t) ==
    /\ pc[t] = "Row.Apply: r.mu.Lock"
    /\ RWLock(t, Wanted(t))
    /\ Goto(t, "Row.Apply: ops")
    /\ UNCHANGED <<local, calls, tablets, dataVars>>

LkRowApplyUnlock(t) ==
    /\ pc[t] = "Row.Apply: ops"
    /\ RWUnlock(t, MuOf(local[t].tab, RowMu(local[t].key)))
    /\ Goto(t, "Apply: m.mu.Unlock")
    /\ UNCHANGED <<local, calls, tablets, dataVars>>

\* MemTable.Apply returns to Mutate, or to the replay loop of NewTablet.
LkApplyUnlock(t) ==
    /\ pc[t] = "Apply: m.mu.Unlock"
    /\ RWUnlock(t, MuOf(local[t].tab, MemTableMu))
    /\ Goto(t, IF local[t].replay THEN "NewTablet: return" ELSE "Mutate: t.mu.Unlock")
    /\ local' = [local EXCEPT ![t].replay = FALSE]
    /\ UNCHANGED <<calls, tablets, dataVars>>

\* Tablet.Mutate returns to its caller, or to the loop of Split.
LkMutateUnlock(t) ==
    /\ pc[t] = "Mutate: t.mu.Unlock"
    /\ RWUnlock(t, MuOf(local[t].tab, TabletMu))
    /\ IF local[t].call = "Split"
       THEN /\ Goto(t, "Split: partition")
            /\ local' = [local EXCEPT ![t].err = "ok"]
       ELSE /\ Goto(t, "idle")
            /\ local' = [local EXCEPT ![t] = LockIdle]
    /\ UNCHANGED <<calls, tablets, dataVars>>

\* Tablet.Read: t.mu.RLock()
LkReadRLock(t) ==
    /\ pc[t] = "Read: t.mu.RLock"
    /\ RWRLock(t, Wanted(t))
    /\ Goto(t, "Read: InRange")
    /\ UNCHANGED <<local, calls, tablets, dataVars>>

LkReadInRange(t) ==
    /\ pc[t] = "Read: InRange"
    /\ \E inRange \in BOOLEAN :
        IF inRange
        THEN /\ Goto(t, "Get: m.mu.RLock")
             /\ local' = local
        ELSE /\ Goto(t, "Read: t.mu.RUnlock")
             /\ local' = [local EXCEPT ![t].err = "OutOfRange"]
    /\ UNCHANGED <<locks, calls, tablets, dataVars>>

\* MemTable.Get: m.mu.RLock()
LkGetRLock(t) ==
    /\ pc[t] = "Get: m.mu.RLock"
    /\ RWRLock(t, Wanted(t))
    /\ Goto(t, "Get: tree.Get")
    /\ UNCHANGED <<local, calls, tablets, dataVars>>

\* MemTable.Get: the row pointer or nil, and the deferred m.mu.RUnlock().
LkGetRUnlock(t) ==
    /\ pc[t] = "Get: tree.Get"
    /\ RWRUnlock(t, MuOf(local[t].tab, MemTableMu))
    /\ \E found \in BOOLEAN :
        Goto(t, IF found THEN "Row.Get: r.mu.RLock" ELSE "Read: t.mu.RUnlock")
    /\ UNCHANGED <<local, calls, tablets, dataVars>>

\* Row.Get: r.mu.RLock()
LkRowGetRLock(t) ==
    /\ pc[t] = "Row.Get: r.mu.RLock"
    /\ RWRLock(t, Wanted(t))
    /\ Goto(t, "Row.Get: GetLatest")
    /\ UNCHANGED <<local, calls, tablets, dataVars>>

LkRowGetRUnlock(t) ==
    /\ pc[t] = "Row.Get: GetLatest"
    /\ RWRUnlock(t, MuOf(local[t].tab, RowMu(local[t].key)))
    /\ Goto(t, "Read: t.mu.RUnlock")
    /\ UNCHANGED <<local, calls, tablets, dataVars>>

\* Tablet.Read: the scan of the SSTables takes no lock; the deferred
\* t.mu.RUnlock().
LkReadRUnlock(t) ==
    /\ pc[t] = "Read: t.mu.RUnlock"
    /\ RWRUnlock(t, MuOf(local[t].tab, TabletMu))
    /\ Goto(t, "idle")
    /\ local' = [local EXCEPT ![t] = LockIdle]
    /\ UNCHANGED <<calls, tablets, dataVars>>

\* Tablet.Close: t.mu.Lock()
LkCloseLock(t) ==
    /\ pc[t] = "Close: t.mu.Lock"
    /\ RWLock(t, Wanted(t))
    /\ Goto(t, "Close: l.mu.Lock")
    /\ UNCHANGED <<local, calls, tablets, dataVars>>

\* CommitLog.Close: l.mu.Lock()
LkCloseLogLock(t) ==
    /\ pc[t] = "Close: l.mu.Lock"
    /\ MutexLock(t, Wanted(t))
    /\ Goto(t, "Close: file.Close")
    /\ UNCHANGED <<local, calls, tablets, dataVars>>

LkCloseLogUnlock(t) ==
    /\ pc[t] = "Close: file.Close"
    /\ RWUnlock(t, MuOf(local[t].tab, CommitLogMu))
    /\ Goto(t, "Close: t.mu.Unlock")
    /\ UNCHANGED <<local, calls, tablets, dataVars>>

LkCloseUnlock(t) ==
    /\ pc[t] = "Close: t.mu.Unlock"
    /\ RWUnlock(t, MuOf(local[t].tab, TabletMu))
    /\ Goto(t, "idle")
    /\ local' = [local EXCEPT ![t] = LockIdle]
    /\ UNCHANGED <<calls, tablets, dataVars>>

\* Tablet.Split: t.mu.Lock()
LkSplitLock(t) ==
    /\ pc[t] = "Split: t.mu.Lock"
    /\ RWLock(t, Wanted(t))
    /\ Goto(t, "Split: threshold")
    /\ UNCHANGED <<local, calls, tablets, dataVars>>

\* Split, step 1: the size check.
LkSplitThreshold(t) ==
    /\ pc[t] = "Split: threshold"
    /\ \E below \in BOOLEAN :
        IF below
        THEN /\ Goto(t, "Split: t.mu.Unlock")
             /\ local' = [local EXCEPT ![t].err = "BelowThreshold"]
        ELSE /\ Goto(t, "Flush: m.mu.Lock")
             /\ local' = local
    /\ UNCHANGED <<locks, calls, tablets, dataVars>>

\* MemTable.Flush: m.mu.Lock()
LkFlushLock(t) ==
    /\ pc[t] = "Flush: m.mu.Lock"
    /\ RWLock(t, Wanted(t))
    /\ Goto(t, "Flush: write")
    /\ UNCHANGED <<local, calls, tablets, dataVars>>

\* MemTable.Flush: the file is written, or not, and the deferred m.mu.Unlock().
LkFlushUnlock(t) ==
    /\ pc[t] = "Flush: write"
    /\ RWUnlock(t, MuOf(local[t].tab, MemTableMu))
    /\ \E written \in BOOLEAN :
        IF written
        THEN /\ Goto(t, "Split: rows")
             /\ local' = local
        ELSE /\ Goto(t, "Split: t.mu.Unlock")
             /\ local' = [local EXCEPT ![t].err = "IOFailure"]
    /\ UNCHANGED <<calls, tablets, dataVars>>

\* Split, step 3: the rows of the listed SSTables are read and counted.
LkSplitRows(t) ==
    /\ pc[t] = "Split: rows"
    /\ \E n \in 0..MaxSplitRows :
        IF n < 2
        THEN /\ Goto(t, "Split: t.mu.Unlock")
             /\ local' = [local EXCEPT ![t].err = "NotEnoughRows"]
        ELSE /\ Goto(t, "NewTablet")
             /\ local' = [local EXCEPT ![t].rows = n, ![t].tab = local[t].left]
    /\ UNCHANGED <<locks, calls, tablets, dataVars>>

\* NewTablet for the left child, then for the right one: the directory and
\* the commit log are opened, or not.
LkNewTablet(t) ==
    /\ pc[t] = "NewTablet"
    /\ \E made \in BOOLEAN :
        IF made
        THEN /\ Goto(t, "Recover: l.mu.Lock")
             /\ local' = local
        ELSE /\ Goto(t, "Split: t.mu.Unlock")
             /\ local' = [local EXCEPT ![t].err = "IOFailure", ![t].tab = local[t].parent]
    /\ UNCHANGED <<locks, calls, tablets, dataVars>>

\* CommitLog.Recover: l.mu.Lock()
LkRecoverLock(t) ==
    /\ pc[t] = "Recover: l.mu.Lock"
    /\ MutexLock(t, Wanted(t))
    /\ Goto(t, "Recover: decode")
    /\ UNCHANGED <<local, calls, tablets, dataVars>>

\* CommitLog.Recover: the decode loop fails, finds no record, or finds a
\* record that NewTablet replays; the deferred l.mu.Unlock().
LkRecoverUnlock(t) ==
    /\ pc[t] = "Recover: decode"
    /\ RWUnlock(t, MuOf(local[t].tab, CommitLogMu))
    /\ \E outcome \in {"CorruptLog", "empty", "mutation"} :
        IF outcome = "CorruptLog"
        THEN /\ Goto(t, "Split: t.mu.Unlock")
             /\ local' = [local EXCEPT ![t].err = outcome, ![t].tab = local[t].parent]
        ELSE IF outcome = "empty"
        THEN /\ Goto(t, "NewTablet: return")
             /\ local' = local
        ELSE /\ Goto(t, "Apply: m.mu.Lock")
             /\ local' = [local EXCEPT ![t].replay = TRUE]
    /\ UNCHANGED <<calls, tablets, dataVars>>

\* NewTablet returns to Split: the right child is next, or the rows.
LkNewTabletReturn(t) ==
    /\ pc[t] = "NewTablet: return"
    /\ IF local[t].tab = local[t].left
       THEN /\ Goto(t, "NewTablet")
            /\ local' = [local EXCEPT ![t].tab = local[t].right]
       ELSE /\ Goto(t, "Split: partition")
            /\ local' = local
    /\ UNCHANGED <<locks, calls, tablets, dataVars>>

\* Split, step 5: Mutate on the left or on the right child for each row, in
\* the order of the sorted rows (the least key first), then the return of the
\* two children.
LkSplitPartition(t) ==
    /\ pc[t] = "Split: partition"
    /\ IF local[t].rows > 0
       THEN /\ \E child \in Children(local[t]) :
                local' = [local EXCEPT ![t].rows = @ - 1, ![t].tab = child,
                            ![t].key = IF local[t].rows = MaxSplitRows THEN 0 ELSE MaxKey]
            /\ Goto(t, "Mutate: t.mu.Lock")
       ELSE /\ local' = [local EXCEPT ![t].tab = local[t].parent, ![t].err = "ok"]
            /\ Goto(t, "Split: t.mu.Unlock")
    /\ UNCHANGED <<locks, calls, tablets, dataVars>>

\* Tablet.Split: the deferred t.mu.Unlock(); the caller holds the children
\* of a Split that returned them.
LkSplitUnlock(t) ==
    /\ pc[t] = "Split: t.mu.Unlock"
    /\ RWUnlock(t, MuOf(local[t].parent, TabletMu))
    /\ tablets' = IF local[t].err = "ok"
                  THEN tablets \cup {local[t].left, local[t].right}
                  ELSE tablets
    /\ Goto(t, "idle")
    /\ local' = [local EXCEPT ![t] = LockIdle]
    /\ UNCHANGED <<calls, dataVars>>

LockStep(t) ==
    \/ LkCallMutate(t) \/ LkCallRead(t) \/ LkCallSplit(t) \/ LkCallClose(t)
    \/ LkAnnounce(t)
    \/ LkMutateLock(t) \/ LkMutateInRange(t)
    \/ LkAppendLock(t) \/ LkAppendUnlock(t)
    \/ LkApplyLock(t) \/ LkRowApplyLock(t) \/ LkRowApplyUnlock(t) \/ LkApplyUnlock(t)
    \/ LkMutateUnlock(t)
    \/ LkReadRLock(t) \/ LkReadInRange(t)
    \/ LkGetRLock(t) \/ LkGetRUnlock(t)
    \/ LkRowGetRLock(t) \/ LkRowGetRUnlock(t)
    \/ LkReadRUnlock(t)
    \/ LkCloseLock(t) \/ LkCloseLogLock(t) \/ LkCloseLogUnlock(t) \/ LkCloseUnlock(t)
    \/ LkSplitLock(t) \/ LkSplitThreshold(t)
    \/ LkFlushLock(t) \/ LkFlushUnlock(t)
    \/ LkSplitRows(t) \/ LkNewTablet(t)
    \/ LkRecoverLock(t) \/ LkRecoverUnlock(t) \/ LkNewTabletReturn(t)
    \/ LkSplitPartition(t) \/ LkSplitUnlock(t)

LockNext == \E t \in Threads : LockStep(t)

\* The Go scheduler runs a goroutine that can run.
LockSpec == LockInit /\ [][LockNext]_vars /\ \A t \in Threads : WF_vars(LockStep(t))

\* The mutexes thread t holds, as writer or as reader.
HeldBy(t) == {mu \in LockMutexes : locks[mu].w = t \/ t \in locks[mu].r}
RowMutexes == {RowMu(k) : k \in ConcKeys}
Taking(t) == pc[t] \in WriteSites \cup ReadSites \cup MutexSites

\* What a thread holds at the moment it asks for a mutex.
LockOrder ==
    \A t \in Threads :
        Taking(t) =>
            \* no memtable lock is asked for while a row lock is held
            /\ Wanted(t)[2] = MemTableMu =>
                \A mu \in HeldBy(t) : mu[2] \notin RowMutexes
            \* no tablet lock while a lock of its memtable, log or rows is held
            /\ Wanted(t)[2] = TabletMu =>
                \A mu \in HeldBy(t) : mu[1] # Wanted(t)[1]
            \* a call on a tablet has the tablet lock when it asks for the
            \* memtable lock, Row.Apply has the memtable lock, Row.Get of Read
            \* has the tablet lock
            /\ (Wanted(t)[2] = MemTableMu /\ ~local[t].replay) =>
                MuOf(Wanted(t)[1], TabletMu) \in HeldBy(t)
            /\ pc[t] = "Row.Apply: r.mu.Lock" =>
                MuOf(Wanted(t)[1], MemTableMu) \in HeldBy(t)
            /\ pc[t] = "Row.Get: r.mu.RLock" =>
                MuOf(Wanted(t)[1], TabletMu) \in HeldBy(t)

(***************************************************************************)
(* C24  Locks are taken in the order tablet lock, memtable lock, row lock: *)
(* no thread asks for a memtable lock while holding a row lock, nor for a  *)
(* tablet's lock while holding a lock of that tablet's memtable, commit    *)
(* log or rows; and concurrent Mutate, Read, Split and Close calls on a    *)
(* tablet and on its split children do not deadlock: every call returns.   *)
(***************************************************************************)
C24_LockOrderAndNoDeadlock ==
    /\ []LockOrder
    /\ \A t \in Threads : (pc[t] # "idle") ~> (pc[t] = "idle")

\* A thread splitting a child of the root is inside Row.Apply on a child of
\* that child, holding the locks of both, while the other thread, in Close
\* on the tablet being split, waits for its t.mu.
C24_Witness ==
    \E t \in DOMAIN pc, w \in DOMAIN pc :
        /\ t # w
        /\ local[t].call = "Split"
        /\ local[t].parent # RootTablet
        /\ pc[t] = "Row.Apply: ops"
        /\ ~local[t].replay
        /\ {MuOf(local[t].parent, TabletMu), MuOf(local[t].tab, TabletMu),
            MuOf(local[t].tab, MemTableMu)} \subseteq HeldBy(t)
        /\ local[w].call = "Close"
        /\ local[w].tab = local[t].parent
        /\ pc[w] = "Close: t.mu.Lock"

(***************************************************************************)
(* server.go, package master: the registry of tablet servers and the list  *)
(* of tablet locations.  Each handler runs under m.mu from its first       *)
(* access to the Master to its return, so a request is one step.           *)
(***************************************************************************)
MaxMasterKey == 2
MaxLocations == 5
MasterKeys == 0..MaxMasterKey
MasterServers == {"s1"}
\* The id query parameter of /register: missing, or the id of a server.
RegisterIDs == {"", "s1", "s2"}

TabletLocation(id, start, end, server) ==
    [TabletID |-> id, StartKey |-> start, EndKey |-> end, ServerID |-> server]

NewMaster == [Servers |-> EmptyMap, TabletLocations |-> <<>>]

\* Master.HandleRegister
HandleRegister(m, serverID) ==
    IF serverID = ""
    THEN [status |-> 400, m |-> m]
    ELSE [status |-> 200,
          m |-> [Servers |-> (serverID :> 0) @@ m.Servers,
                 TabletLocations |->
                    IF Len(m.TabletLocations) = 0
                    THEN Append(m.TabletLocations, TabletLocation("root", 0, 0, serverID))
                    ELSE m.TabletLocations]]

\* HandleSplitReport, step 1: the locations without the entries of the parent.
RECURSIVE RemoveParent(_, _, _)
RemoveParent(locations, i, parentID) ==
    IF i > Len(locations)
    THEN <<>>
    ELSE IF locations[i].TabletID = parentID
    THEN RemoveParent(locations, i + 1, parentID)
    ELSE <<locations[i]>> \o RemoveParent(locations, i + 1, parentID)

\* A request body that json does not decode.
BadBody == [bad |-> TRUE]

\* Master.HandleSplitReport
HandleSplitReport(m, body) ==
    IF body = BadBody
    THEN [status |-> 400, m |-> m]
    ELSE [status |-> 200,
          m |-> [m EXCEPT !.TabletLocations =
                    RemoveParent(m.TabletLocations, 1, body.ParentID)
                        \o <<body.Left, body.Right>>]]

\* The TabletID of the tablet of a range: "root" for the whole key space,
\* else the name of its directory.
TabletIDOf(start, end) == IF start = 0 /\ end = 0 THEN "root" ELSE Sprintf(start, end)

\* The reports a tablet server sends: tablet [start, end) was split at key
\* into [start, key) and [key, end), both served by the reporting server.
SplitReports ==
    {[ParentID |-> TabletIDOf(start, end),
      Left |-> TabletLocation(TabletIDOf(start, key), start, key, server),
      Right |-> TabletLocation(TabletIDOf(key, end), key, end, server)] :
        <<start, end, key, server>> \in
            {x \in MasterKeys \X MasterKeys \X MasterKeys \X MasterServers :
                /\ x[1] < x[3]
                /\ x[2] = 0 \/ x[3] < x[2]}}

otherVars == <<tablet, files, now, tabletVars, applyVars, concVars, storeVars, lockVars>>

MasterInit ==
    /\ tablet = Nil
    /\ files = EmptyMap
    /\ now = FirstClock
    /\ ret = [err |-> "ok"]
    /\ acked = <<>>
    /\ opened = 0
    /\ splits = 0
    /\ rootRange = <<0, 0>>
    /\ target = Nil
    /\ applied = Nil
    /\ pc = <<>>
    /\ local = <<>>
    /\ locks = EmptyMap
    /\ calls = 0
    /\ committed = EmptyMap
    /\ visible = <<>>
    /\ compaction = Nil
    /\ tablets = {}
    /\ master = NewMaster
    /\ report = Nil

MasterRegister ==
    /\ \E serverID \in RegisterIDs :
        LET r == HandleRegister(master, serverID)
        IN  /\ master' = r.m
            /\ report' = [request |-> "register", status |-> r.status,
                          before |-> master.TabletLocations]
    /\ UNCHANGED otherVars

MasterSplitReport ==
    /\ Len(master.TabletLocations) + 2 <= MaxLocations
    /\ \E body \in SplitReports \cup {BadBody} :
        LET r == HandleSplitReport(master, body)
        IN  /\ master' = r.m
            /\ report' = [request |-> "split-report", status |-> r.status,
                          body |-> body, before |-> master.TabletLocations]
    /\ UNCHANGED otherVars

MasterNext == MasterRegister \/ MasterSplitReport

MasterSpec == MasterInit /\ [][MasterNext]_vars

\* The number of entries of locations that are equal to location.
Entries(locations, location) ==
    Cardinality({i \in DOMAIN locations : locations[i] = location})

NotOf(body, location) ==
    /\ location.TabletID # body.ParentID
    /\ location # body.Left
    /\ location # body.Right

\* Two locations share a key; EndKey 0 is the empty string, no upper bound.
Overlap(a, b) ==
    /\ b.EndKey = 0 \/ a.StartKey < b.EndKey
    /\ a.EndKey = 0 \/ b.StartKey < a.EndKey

(***************************************************************************)
(* C25  After the master has handled a split report for parent P with      *)
(* children L and R, TabletLocations holds no entry with TabletID P, holds *)
(* L and R once each and holds every other entry as before, also for a     *)
(* repeated report and for a report whose parent is not in the list; the   *)
(* ranges of two entries of TabletLocations never overlap.                 *)
(***************************************************************************)
C25_SplitReportReplacesParent ==
    /\ (report # Nil /\ report.request = "split-report" /\ report.status = 200) =>
        LET body == report.body
            locations == master.TabletLocations
        IN  /\ \A i \in DOMAIN locations : locations[i].TabletID # body.ParentID
            /\ Entries(locations, body.Left) = 1
            /\ Entries(locations, body.Right) = 1
            /\ SelectSeq(locations, LAMBDA l : NotOf(body, l))
                    = SelectSeq(report.before, LAMBDA l : NotOf(body, l))
    /\ \A i, j \in DOMAIN master.TabletLocations :
        i # j => ~Overlap(master.TabletLocations[i], master.TabletLocations[j])
====
